---- MODULE Spec2Model ----
(***************************************************************************)
(* Transactions of the Concordium Rust SDK (src/types/transactions.rs):    *)
(* the two-level threshold signature check, the transaction signers, the   *)
(* sign hash and the two-phase transaction builder.                        *)
(*                                                                         *)
(* Cryptography is a black box.  A key pair is a number, its public key is *)
(* the same number, a signature records who signed what, and a digest      *)
(* records the bytes it was computed from (collision-free).                *)
(***************************************************************************)
EXTENDS Integers, Sequences, FiniteSets, TLC

VARIABLES
    keys,          \* the account access structure signatures are checked against
    signature,     \* the TransactionSignature produced or under test
    verified,      \* <<result>> of the last signature check, <<>> before it
    hash_to_sign,  \* the transaction sign hash signed and checked
    signer,        \* the TransactionSigner in use
    num_keys,      \* <<result>> of the signer's num_keys(), <<>> before the call
    step,          \* how far the caller has got
    given,         \* construct: the GivenEnergy cost policy of the call
    builder,       \* construct: <<TransactionBuilder>> inside make_transaction
    pre,           \* construct: <<PreAccountTransaction>> once returned
    tx,            \* <<AccountTransaction>> once signed
    item,          \* wire: the value that is serialized, hashed or sent
    data,          \* wire: the bytes written, in flight or to be decoded
    tx_hash,       \* wire: <<hash>> computed by the client, <<>> before
    response,      \* wire: <<answer>> of the node in flight, <<>> before
    result         \* wire: <<result>> of the call, <<>> before it returns

svars == <<signer, num_keys, step>>
bvars == <<given, builder, pre, tx>>
wvars == <<item, data, tx_hash, response, result>>
vars == <<keys, signature, verified, hash_to_sign, signer, num_keys, step,
          given, builder, pre, tx, item, data, tx_hash, response, result>>

\* Values of the variables a specification does not use.
NoSigner == [kind |-> "none"]
Idle == "idle"
NoBuild == given = <<>> /\ builder = <<>> /\ pre = <<>> /\ tx = <<>>
NoWire == item = <<>> /\ data = <<>> /\ tx_hash = <<>> /\ response = <<>> /\ result = <<>>

-----------------------------------------------------------------------------
(* The verification universe: credential indices 0 .. V_NumCreds-1, each *)
(* with the two key indices 0 and 1.                                      *)
V_NumCreds == 2

V_CredIx == 0 .. (V_NumCreds - 1)
V_KeyIx == {0, 1}

-----------------------------------------------------------------------------
(* Black-box primitives. *)

\* KeyPair::sign: the signature of key pair kp on message msg.
Sign(kp, msg) == [by |-> kp, over |-> msg]

\* VerifyKey::from(&KeyPair): the public key of a key pair.
VerifyKey(kp) == kp

\* VerifyKey::verify: does sig verify against public key pk and message msg.
Verify(pk, msg, sig) == sig = [by |-> pk, over |-> msg]

\* The empty BTreeMap.
EmptyMap == [x \in {} |-> 0]

\* BTreeMap::len.
Len_(m) == Cardinality(DOMAIN m)

\* BTreeMap::remove.
MapRemove(m, k) == [x \in (DOMAIN m) \ {k} |-> m[x]]

\* BTreeMap::insert.
MapInsert(m, k, v) == [x \in (DOMAIN m) \cup {k} |-> IF x = k THEN v ELSE m[x]]

-----------------------------------------------------------------------------
(* verify_signature_transaction_sign_hash *)

\* AccountAccessStructure::credential_keys: Some(keys) when idx is known.
credential_keys(ks, idx) ==
    IF idx \in DOMAIN ks.keys THEN <<ks.keys[idx]>> ELSE <<>>

\* Mutant: a key index that is not declared is skipped instead of rejected.
verify_credential_SkipUndeclared(cred_keys, hash, cred_sigs) ==
    IF cred_keys.threshold > Len_(cred_sigs)
    THEN FALSE
    ELSE \A ki \in DOMAIN cred_sigs :
            IF ki \in DOMAIN cred_keys.keys
            THEN Verify(cred_keys.keys[ki], hash, cred_sigs[ki])
            ELSE TRUE

\* Mutant: the threshold of a credential is not compared with the number of
\* its signatures.
verify_credential_NoThreshold(cred_keys, hash, cred_sigs) ==
    \A ki \in DOMAIN cred_sigs :
        IF ki \in DOMAIN cred_keys.keys
        THEN Verify(cred_keys.keys[ki], hash, cred_sigs[ki])
        ELSE FALSE

\* The inner loop over one credential's signatures (lines 866-877).
verify_credential(cred_keys, hash, cred_sigs) ==
    IF cred_keys.threshold > Len_(cred_sigs)
    THEN FALSE
    ELSE \A ki \in DOMAIN cred_sigs :
            IF ki \in DOMAIN cred_keys.keys
            THEN Verify(cred_keys.keys[ki], hash, cred_sigs[ki])
            ELSE FALSE

\* Mutant: a credential index the access structure does not know is skipped.
verify_SkipUnknownCredential(ks, hash, sig) ==
    IF ks.threshold > Len_(sig)
    THEN FALSE
    ELSE \A ci \in DOMAIN sig :
            LET ck == credential_keys(ks, ci) IN
            IF ck # <<>>
            THEN verify_credential(ck[1], hash, sig[ci])
            ELSE TRUE

\* Mutant: the account threshold is not compared with the number of credentials.
verify_NoAccountThreshold(ks, hash, sig) ==
    \A ci \in DOMAIN sig :
        LET ck == credential_keys(ks, ci) IN
        IF ck # <<>>
        THEN verify_credential(ck[1], hash, sig[ci])
        ELSE FALSE

verify_signature_transaction_sign_hash(ks, hash, sig) ==
    IF ks.threshold > Len_(sig)
    THEN FALSE
    ELSE \A ci \in DOMAIN sig :
            LET ck == credential_keys(ks, ci) IN
            IF ck # <<>>
            THEN verify_credential(ck[1], hash, sig[ci])
            ELSE FALSE

-----------------------------------------------------------------------------
(* Verification of arbitrary signature maps against access structures. *)

\* The sign hash under verification, and another one.
V_Hash == "h1"
V_OtherHash == "h2"

\* The key pair whose public key is declared at (credential ci, key ki).
KeyPairAt(ci, ki) == 10 * ci + ki + 1

\* Maps from a subset of D to R.
PartialMaps(D, R) == UNION {[S -> R] : S \in SUBSET D}

\* Credential public keys: key 0 or keys 0 and 1 declared, threshold 1 or 2.
V_CredentialPublicKeys(ci) ==
    {[threshold |-> t, keys |-> [ki \in D |-> VerifyKey(KeyPairAt(ci, ki))]] :
        t \in 1 .. Cardinality(V_KeyIx), D \in {{0}, V_KeyIx}}

V_AccessStructures ==
    {[threshold |-> t, keys |-> ks] :
        t \in 1 .. V_NumCreds,
        ks \in {m \in PartialMaps(V_CredIx, UNION {V_CredentialPublicKeys(c) : c \in V_CredIx}) :
                    \A c \in DOMAIN m : m[c] \in V_CredentialPublicKeys(c)}}

\* Signatures a caller may put at (ci, ki): the right one, or one over another hash.
V_Signatures(ci, ki) ==
    {Sign(KeyPairAt(ci, ki), V_Hash), Sign(KeyPairAt(ci, ki), V_OtherHash)}

InitVerify ==
    /\ keys \in V_AccessStructures
    /\ signature = EmptyMap
    /\ verified = <<>>
    /\ hash_to_sign = V_Hash
    /\ signer = NoSigner
    /\ num_keys = <<>>
    /\ step = Idle
    /\ NoBuild
    /\ NoWire

\* The caller adds a credential entry with no signatures yet.
V_InsertCredential(ci) ==
    /\ ci \notin DOMAIN signature
    /\ signature' = MapInsert(signature, ci, EmptyMap)
    /\ verified' = <<>>
    /\ step' = Idle
    /\ UNCHANGED <<wvars, keys, hash_to_sign, signer, num_keys, bvars>>

\* The caller adds one signature to a credential entry.
V_InsertSignature(ci, ki, s) ==
    /\ ci \in DOMAIN signature
    /\ ki \notin DOMAIN signature[ci]
    /\ signature' = MapInsert(signature, ci, MapInsert(signature[ci], ki, s))
    /\ verified' = <<>>
    /\ step' = Idle
    /\ UNCHANGED <<wvars, keys, hash_to_sign, signer, num_keys, bvars>>

\* The caller takes one signature out of a credential entry; step tells
\* whether the map had passed the check before.
V_RemoveSignature(ci, ki) ==
    /\ ci \in DOMAIN signature
    /\ ki \in DOMAIN signature[ci]
    /\ signature' = MapInsert(signature, ci, MapRemove(signature[ci], ki))
    /\ verified' = <<>>
    /\ step' = IF verified = <<TRUE>> THEN "removed" ELSE Idle
    /\ UNCHANGED <<wvars, keys, hash_to_sign, signer, num_keys, bvars>>

\* The caller takes a whole credential entry out.
V_RemoveCredential(ci) ==
    /\ ci \in DOMAIN signature
    /\ signature' = MapRemove(signature, ci)
    /\ verified' = <<>>
    /\ step' = IF verified = <<TRUE>> THEN "removed" ELSE Idle
    /\ UNCHANGED <<wvars, keys, hash_to_sign, signer, num_keys, bvars>>

\* tests::test_transaction_signature_check, line 2318: after a successful
\* check the account threshold is set to the number of credentials plus one.
V_RaiseThreshold ==
    /\ verified = <<TRUE>>
    /\ keys' = [keys EXCEPT !.threshold = Len_(signature) + 1]
    /\ verified' = <<>>
    /\ step' = Idle
    /\ UNCHANGED <<wvars, signature, hash_to_sign, signer, num_keys, bvars>>

\* The check is run on the current inputs.
V_Verify ==
    /\ verified = <<>>
    /\ verified' = <<verify_signature_transaction_sign_hash(keys, hash_to_sign, signature)>>
    /\ UNCHANGED <<wvars, keys, signature, hash_to_sign, svars, bvars>>

NextVerify ==
    \/ \E ci \in V_CredIx : V_InsertCredential(ci)
    \/ \E ci \in V_CredIx, ki \in V_KeyIx :
          \E s \in V_Signatures(ci, ki) : V_InsertSignature(ci, ki, s)
    \/ \E ci \in V_CredIx, ki \in V_KeyIx : V_RemoveSignature(ci, ki)
    \/ \E ci \in V_CredIx : V_RemoveCredential(ci)
    \/ V_RaiseThreshold
    \/ V_Verify

SpecVerify == InitVerify /\ [][NextVerify]_vars

-----------------------------------------------------------------------------
(* The transaction signers. *)

\* Iterator::take over a BTreeMap: the entries at the n smallest indices.
Take(m, n) ==
    [k \in {i \in DOMAIN m : Cardinality({j \in DOMAIN m : j < i}) < n} |-> m[k]]

\* Iterator::sum of f over the entries of m.
RECURSIVE SumOver(_, _)
SumOver(m, D) ==
    IF D = {} THEN 0
    ELSE LET k == CHOOSE i \in D : TRUE IN m[k] + SumOver(m, D \ {k})

\* The signatures of every key of one credential (lines 756-759, 783-786).
cred_sigs_of(cred_keys, hash) ==
    [ki \in DOMAIN cred_keys |-> Sign(cred_keys[ki], hash)]

\* Mutant: AccountKeys signs with every key of every credential it holds.
AccountKeys_sign_AllKeys(ak, hash) ==
    [ci \in DOMAIN ak.keys |-> cred_sigs_of(ak.keys[ci].keys, hash)]

\* impl TransactionSigner for AccountKeys.
AccountKeys_sign_transaction_hash(ak, hash) ==
    LET iter == Take(ak.keys, ak.threshold) IN
    [ci \in DOMAIN iter |-> cred_sigs_of(Take(iter[ci].keys, iter[ci].threshold), hash)]

\* Mutant: the credentials that sign are counted, not their keys.
AccountKeys_num_keys_Credentials(ak) == Len_(Take(ak.keys, ak.threshold))

\* impl ExactSizeTransactionSigner for AccountKeys.
AccountKeys_num_keys(ak) ==
    LET first == Take(ak.keys, ak.threshold) IN
    SumOver([ci \in DOMAIN first |-> first[ci].threshold], DOMAIN first)

\* Mutant: the map signer signs with the first key of each credential only.
BTreeMap_sign_FirstKeyOnly(m, hash) ==
    [ci \in DOMAIN m |-> cred_sigs_of(Take(m[ci], 1), hash)]

\* impl TransactionSigner for BTreeMap<CredentialIndex, BTreeMap<KeyIndex, KeyPair>>.
BTreeMap_sign_transaction_hash(m, hash) ==
    [ci \in DOMAIN m |-> cred_sigs_of(m[ci], hash)]

\* impl ExactSizeTransactionSigner for BTreeMap<...>.
BTreeMap_num_keys(m) ==
    SumOver([ci \in DOMAIN m |-> Len_(m[ci])], DOMAIN m)

\* Dispatch on the implementation of the trait.
sign_transaction_hash(sg, hash) ==
    IF sg.kind = "account"
    THEN AccountKeys_sign_transaction_hash(sg.value, hash)
    ELSE BTreeMap_sign_transaction_hash(sg.value, hash)

signer_num_keys(sg) ==
    IF sg.kind = "account"
    THEN AccountKeys_num_keys(sg.value)
    ELSE BTreeMap_num_keys(sg.value)

-----------------------------------------------------------------------------
(* Signing with a signer, then checking against the matching public keys. *)

\* Credential indices 0 .. S_NumCreds-1, key indices 0 .. 2, thresholds 1 .. 3.
S_NumCreds == 2
S_CredIx == 0 .. (S_NumCreds - 1)
S_KeyIx == {0, 1, 2}
S_Thresholds == {1, 2, 3}
S_Hashes == {"h1", "h2"}

\* The key pairs one credential may hold: any set of key indices.
S_CredKeyPairs(ci) ==
    {[ki \in D |-> KeyPairAt(ci, ki)] : D \in SUBSET S_KeyIx}

\* BTreeMap<CredentialIndex, BTreeMap<KeyIndex, KeyPair>> values.
S_MapSigners ==
    {m \in PartialMaps(S_CredIx, UNION {S_CredKeyPairs(c) : c \in S_CredIx}) :
        \A c \in DOMAIN m : m[c] \in S_CredKeyPairs(c)}

\* CredentialData values: key pairs and a signature threshold.
S_CredentialData(ci) ==
    {[keys |-> ks, threshold |-> t] :
        ks \in S_CredKeyPairs(ci) \ {EmptyMap}, t \in S_Thresholds}

\* AccountKeys values: credentials with their keys, and an account threshold.
S_AccountKeys ==
    {[keys |-> m, threshold |-> t] :
        m \in {x \in PartialMaps(S_CredIx, UNION {S_CredentialData(c) : c \in S_CredIx}) :
                  x # EmptyMap /\ \A c \in DOMAIN x : x[c] \in S_CredentialData(c)},
        t \in S_Thresholds}

S_Signers ==
    {[kind |-> "map", value |-> m] : m \in S_MapSigners}
        \cup {[kind |-> "account", value |-> ak] : ak \in S_AccountKeys}

InitSign ==
    /\ signer \in S_Signers
    /\ hash_to_sign \in S_Hashes
    /\ signature = EmptyMap
    /\ keys = [threshold |-> 1, keys |-> EmptyMap]
    /\ verified = <<>>
    /\ num_keys = <<>>
    /\ step = "new"
    /\ NoBuild
    /\ NoWire

\* signer.sign_transaction_hash(&hash) (test line 2295).
S_Sign ==
    /\ step = "new"
    /\ signature' = sign_transaction_hash(signer, hash_to_sign)
    /\ step' = "signed"
    /\ UNCHANGED <<wvars, keys, verified, hash_to_sign, signer, num_keys, bvars>>

\* signer.num_keys().
S_NumKeys ==
    /\ num_keys = <<>>
    /\ num_keys' = <<signer_num_keys(signer)>>
    /\ UNCHANGED <<wvars, keys, signature, verified, hash_to_sign, signer, step, bvars>>

\* The access structure with the public keys of a map signer and thresholds
\* within the number of credentials and of keys (test lines 2296-2312).
S_PublicKeysOfMap(t, ts) ==
    /\ step = "signed"
    /\ signer.kind = "map"
    /\ t \in 1 .. Len_(signer.value)
    /\ DOMAIN ts = DOMAIN signer.value
    /\ \A ci \in DOMAIN ts : ts[ci] \in 1 .. Len_(signer.value[ci])
    /\ keys' = [threshold |-> t,
                keys |-> [ci \in DOMAIN signer.value |->
                             [threshold |-> ts[ci],
                              keys |-> [ki \in DOMAIN signer.value[ci] |->
                                           VerifyKey(signer.value[ci][ki])]]]]
    /\ step' = "published"
    /\ UNCHANGED <<wvars, signature, verified, hash_to_sign, signer, num_keys, bvars>>

\* verify_signature_transaction_sign_hash(&access_structure, &hash, &sig).
S_Verify ==
    /\ step = "published"
    /\ verified' = <<verify_signature_transaction_sign_hash(keys, hash_to_sign, signature)>>
    /\ step' = "checked"
    /\ UNCHANGED <<wvars, keys, signature, hash_to_sign, signer, num_keys, bvars>>

NextSign ==
    \/ S_Sign
    \/ S_NumKeys
    \/ \E t \in S_Thresholds, ts \in PartialMaps(S_CredIx, S_Thresholds) :
          S_PublicKeysOfMap(t, ts)
    \/ S_Verify

SpecSign == InitSign /\ [][NextSign]_vars

-----------------------------------------------------------------------------
(* Serialization.  A byte is a number 0 .. 255, a buffer a sequence of     *)
(* bytes.  Numbers in the model stay below 2^31, so the four high bytes of *)
(* a u64 are zero.                                                         *)

\* constants::MAX_PAYLOAD_SIZE.
MAX_PAYLOAD_SIZE == 100 * 1024

\* u32::serial: four bytes, big-endian.
U32BE(n) ==
    <<(n \div 16777216) % 256, (n \div 65536) % 256, (n \div 256) % 256, n % 256>>

\* u64::serial: eight bytes, big-endian.
U64BE(n) == <<0, 0, 0, 0>> \o U32BE(n)

\* AccountAddress::serial: the 32 bytes of the address.  Address a of the
\* model is the array of 32 bytes a.
AccountAddress_serial(a) == [i \in 1 .. 32 |-> a]

\* bool::serial.
Bool_serial(b) == <<IF b THEN 1 ELSE 0>>

\* Mutant: only as many entries are written as the length byte can count.
serial_vector_no_length_Counted(schedule) ==
    IF Len(schedule) % 256 = 0 THEN <<>>
    ELSE [i \in 1 .. 16 * (Len(schedule) % 256) |->
             LET e == schedule[((i - 1) \div 16) + 1]
             IN  (U64BE(e[1]) \o U64BE(e[2]))[((i - 1) % 16) + 1]]

\* crypto_common::serial_vector_no_length of a release schedule: each entry
\* is a Timestamp and an Amount, sixteen bytes.  Byte i of the output belongs
\* to entry (i - 1) \div 16 + 1.
serial_vector_no_length(schedule) ==
    IF schedule = <<>> THEN <<>>
    ELSE [i \in 1 .. 16 * Len(schedule) |->
             LET e == schedule[((i - 1) \div 16) + 1]
             IN  (U64BE(e[1]) \o U64BE(e[2]))[((i - 1) % 16) + 1]]

\* The byte sequences of ss, all of one length, one after the other.
Concat(ss) ==
    IF ss = <<>> THEN <<>>
    ELSE LET t == ss \o <<>>
             w == Len(ss[1])
         IN  [i \in 1 .. w * Len(t) |-> t[((i - 1) \div w) + 1][((i - 1) % w) + 1]]

\* Values of types that are serialized outside this file (modules, contract
\* payloads, baker keys, encrypted transfer data, credentials, memos, data):
\* such a value is its own serialization v.bytes, OpaqueLen bytes wide.
OpaqueLen == 2
Opaque(b) == [bytes |-> [i \in 1 .. OpaqueLen |-> b]]

\* The k-th smallest index of D.
Nth(D, k) == CHOOSE i \in D : Cardinality({j \in D : j < i}) = k - 1

\* crypto_common::serial_map_no_length of new_cred_infos: each credential
\* index with its credential, in ascending order.
serial_cred_infos(m) ==
    Concat([k \in 1 .. Len_(m) |-> <<Nth(DOMAIN m, k)>> \o m[Nth(DOMAIN m, k)].bytes])

\* impl Serial for Payload, for the variants of the model.
Payload_serial(p) ==
    CASE p.tag = "Transfer" ->
            <<3>> \o AccountAddress_serial(p.to_address) \o U64BE(p.amount)
      [] p.tag = "RemoveBaker" -> <<5>>
      [] p.tag = "UpdateBakerStake" -> <<6>> \o U64BE(p.stake)
      [] p.tag = "UpdateBakerRestakeEarnings" -> <<7>> \o Bool_serial(p.restake_earnings)
      [] p.tag = "TransferToEncrypted" -> <<17>> \o U64BE(p.amount)
      [] p.tag = "TransferWithSchedule" ->
            <<19>> \o AccountAddress_serial(p.to) \o <<Len(p.schedule) % 256>>
                \o serial_vector_no_length(p.schedule)
      [] p.tag = "DeployModule" -> <<0>> \o p.module.bytes
      [] p.tag = "InitContract" -> <<1>> \o p.payload.bytes
      [] p.tag = "Update" -> <<2>> \o p.payload.bytes
      [] p.tag = "AddBaker" -> <<4>> \o p.payload.bytes
      [] p.tag = "UpdateBakerKeys" -> <<8>> \o p.payload.bytes
      [] p.tag = "UpdateCredentialKeys" -> <<13>> \o p.cred_id.bytes \o p.keys.bytes
      [] p.tag = "EncryptedAmountTransfer" ->
            <<16>> \o AccountAddress_serial(p.to) \o p.data.bytes
      [] p.tag = "TransferToPublic" -> <<18>> \o p.data.bytes
      [] p.tag = "UpdateCredentials" ->
            <<20>> \o <<Len_(p.new_cred_infos) % 256>> \o serial_cred_infos(p.new_cred_infos)
                \o <<Len(p.remove_cred_ids) % 256>>
                \o Concat([i \in 1 .. Len(p.remove_cred_ids) |-> p.remove_cred_ids[i].bytes])
                \o <<p.new_threshold>>
      [] p.tag = "RegisterData" -> <<21>> \o p.data.bytes
      [] p.tag = "TransferWithMemo" ->
            <<22>> \o AccountAddress_serial(p.to_address) \o p.memo.bytes \o U64BE(p.amount)
      [] p.tag = "EncryptedAmountTransferWithMemo" ->
            <<23>> \o AccountAddress_serial(p.to) \o p.memo.bytes \o p.data.bytes
      [] p.tag = "TransferWithScheduleAndMemo" ->
            <<24>> \o AccountAddress_serial(p.to) \o p.memo.bytes
                \o <<Len(p.schedule) % 256>> \o serial_vector_no_length(p.schedule)

\* Mutant: the header is written without its energy amount.
TransactionHeader_serial_NoEnergy(h) ==
    AccountAddress_serial(h.sender) \o U64BE(h.nonce)
        \o U32BE(h.payload_size) \o U64BE(h.expiry)

\* derive(Serialize) for TransactionHeader: the fields in declared order.
TransactionHeader_serial(h) ==
    AccountAddress_serial(h.sender) \o U64BE(h.nonce) \o U64BE(h.energy_amount)
        \o U32BE(h.payload_size) \o U64BE(h.expiry)

\* Sha256: the digest remembers its input (no collisions).
Digest(bytes) == [digest |-> bytes]

\* u16::serial: two bytes, big-endian.
U16BE(n) == <<(n \div 256) % 256, n % 256>>

\* The bytes of a black-box signature: the signing key, then the bytes the
\* signed digest was computed from.
SignatureBytes(s) == <<s.by>> \o s.over.digest

\* Signature::serial: the length in two bytes, then the bytes.
Signature_serial(s) == U16BE(Len(SignatureBytes(s))) \o SignatureBytes(s)

\* The smallest index of a non-empty set of indices.
MinIndex(D) == CHOOSE i \in D : \A j \in D : i <= j

\* crypto_common::serial_map_no_length of one credential's signatures: each
\* key index with its signature, in ascending order.
RECURSIVE serial_map_no_length(_, _)
serial_map_no_length(m, D) ==
    IF D = {} THEN <<>>
    ELSE <<MinIndex(D)>> \o Signature_serial(m[MinIndex(D)])
            \o serial_map_no_length(m, D \ {MinIndex(D)})

\* TransactionSignature::serial, the loop: each credential index, the number
\* of its signatures in a byte, and the signatures.
RECURSIVE serial_credentials(_, _)
serial_credentials(sig, D) ==
    IF D = {} THEN <<>>
    ELSE LET ci == MinIndex(D)
         IN  <<ci, Len_(sig[ci]) % 256>> \o serial_map_no_length(sig[ci], DOMAIN sig[ci])
                \o serial_credentials(sig, D \ {ci})

\* TransactionSignature::serial: the number of credentials in a byte, then
\* the credentials.
TransactionSignature_serial(sig) ==
    <<Len_(sig) % 256>> \o serial_credentials(sig, DOMAIN sig)

-----------------------------------------------------------------------------
(* PayloadLike: a structured Payload has a tag, an EncodedPayload has the  *)
(* bytes in its field payload.                                             *)

IsPayload(pl) == "tag" \in DOMAIN pl

\* crypto_common::to_bytes(&payload).
to_bytes(p) == Payload_serial(p)

\* PayloadLike::encode (lines 125 and 694-697).
encode(pl) ==
    IF IsPayload(pl) THEN [payload |-> to_bytes(pl)] ELSE pl

\* Mutant: a structured payload is written without its tag byte.
encode_to_buffer_NoTag(pl) ==
    IF IsPayload(pl) THEN Tail(Payload_serial(pl)) ELSE pl.payload

\* PayloadLike::encode_to_buffer (lines 127-130 and 699): the bytes written.
encode_to_buffer(pl) ==
    IF IsPayload(pl) THEN Payload_serial(pl) ELSE pl.payload

\* EncodedPayload::size.
EncodedPayload_size(e) == Len(e.payload)

compute_transaction_sign_hash(header, pl) ==
    Digest(TransactionHeader_serial(header) \o encode_to_buffer(pl))

\* sign_transaction.
sign_transaction(sg, header, pl) ==
    LET hash == compute_transaction_sign_hash(header, pl) IN
    [signature |-> sign_transaction_hash(sg, hash), header |-> header, payload |-> pl]

\* impl Serial for AccountTransaction<P>: signature, header, payload bytes.
AccountTransaction_serial(t) ==
    TransactionSignature_serial(t.signature) \o TransactionHeader_serial(t.header)
        \o encode_to_buffer(t.payload)

\* Mutant: the check hashes the whole serialized transaction, signature
\* included.
verify_transaction_signature_WholeTransaction(t, ks) ==
    verify_signature_transaction_sign_hash(ks, Digest(AccountTransaction_serial(t)), t.signature)

\* AccountTransaction::verify_transaction_signature.
verify_transaction_signature(t, ks) ==
    LET hash == compute_transaction_sign_hash(t.header, t.payload) IN
    verify_signature_transaction_sign_hash(ks, hash, t.signature)

-----------------------------------------------------------------------------
(* Energy cost and the transaction builder. *)

\* cost::A and cost::B.
A == 100
B == 1

\* Mutant: the two constants change places.
base_cost_Swapped(transaction_size, num_signatures) ==
    A * transaction_size + B * num_signatures

base_cost(transaction_size, num_signatures) ==
    B * transaction_size + A * num_signatures

\* The type-specific costs of module cost.
SIMPLE_TRANSFER == 300
ENCRYPTED_TRANSFER == 27000
TRANSFER_TO_ENCRYPTED == 600
TRANSFER_TO_PUBLIC == 14850
ADD_BAKER == 4050
UPDATE_BAKER_KEYS == 4050
UPDATE_BAKER_STAKE == 300
UPDATE_BAKER_RESTAKE == 300
REMOVE_BAKER == 300
REGISTER_DATA == 300

\* cost::scheduled_transfer.
scheduled_transfer(num_releases) == num_releases * (300 + 64)

\* cost::deploy_module.
deploy_module(module_size) == module_size \div 10

TRANSACTION_HEADER_SIZE == 32 + 8 + 8 + 4 + 8

\* TransactionBuilder::new.
TransactionBuilder_new(sender, nonce, expiry, payload) ==
    LET encoded == encode(payload) IN
    [header |-> [sender |-> sender, nonce |-> nonce, energy_amount |-> 0,
                 payload_size |-> EncodedPayload_size(encoded), expiry |-> expiry],
     payload |-> payload,
     encoded |-> encoded]

\* TransactionBuilder::size.
TransactionBuilder_size(b) == TRANSACTION_HEADER_SIZE + b.header.payload_size

\* The closure `cost` of make_transaction (lines 1942-1945).
make_transaction_cost(energy, size) ==
    IF energy.kind = "Absolute"
    THEN energy.energy
    ELSE base_cost(size, energy.num_sigs) + energy.energy

\* Mutant: the hash is computed before the energy is written to the header.
TransactionBuilder_construct_HashFirst(b, energy) ==
    [header |-> [b.header EXCEPT
                    !.energy_amount = make_transaction_cost(energy, TransactionBuilder_size(b))],
     payload |-> b.payload,
     encoded |-> b.encoded,
     hash_to_sign |-> compute_transaction_sign_hash(b.header, b.encoded)]

\* TransactionBuilder::construct, with the closure of make_transaction.
TransactionBuilder_construct(b, energy) ==
    LET size == TransactionBuilder_size(b)
        header == [b.header EXCEPT !.energy_amount = make_transaction_cost(energy, size)]
    IN  [header |-> header,
         payload |-> b.payload,
         encoded |-> b.encoded,
         hash_to_sign |-> compute_transaction_sign_hash(header, b.encoded)]

\* Mutant: the placeholder header of the builder is what gets signed.
PreAccountTransaction_sign_Placeholder(p, sg) ==
    sign_transaction(sg, [p.header EXCEPT !.energy_amount = 0], p.encoded)

\* PreAccountTransaction::sign.
PreAccountTransaction_sign(p, sg) == sign_transaction(sg, p.header, p.encoded)

\* The wrappers of module construct, by name.
Wrappers ==
    {"transfer", "transfer_with_memo", "encrypted_transfer", "encrypted_transfer_with_memo",
     "transfer_to_encrypted", "transfer_to_public", "transfer_with_schedule",
     "transfer_with_schedule_and_memo", "add_baker", "update_baker_keys", "remove_baker",
     "update_baker_stake", "update_baker_restake_earnings", "register_data",
     "deploy_module", "init_contract", "update_contract"}

\* The energy each wrapper hands to make_transaction in GivenEnergy::Add.
\* source.size() is the number of bytes of the module source, and
\* schedule.len() as u16 the number of releases modulo 2^16.
wrapper_energy(w, a) ==
    CASE w \in {"transfer", "transfer_with_memo"} -> SIMPLE_TRANSFER
      [] w \in {"encrypted_transfer", "encrypted_transfer_with_memo"} -> ENCRYPTED_TRANSFER
      [] w = "transfer_to_encrypted" -> TRANSFER_TO_ENCRYPTED
      [] w = "transfer_to_public" -> TRANSFER_TO_PUBLIC
      [] w \in {"transfer_with_schedule", "transfer_with_schedule_and_memo"} ->
            scheduled_transfer(Len(a.schedule) % 65536)
      [] w = "add_baker" -> ADD_BAKER
      [] w = "update_baker_keys" -> UPDATE_BAKER_KEYS
      [] w = "remove_baker" -> REMOVE_BAKER
      [] w = "update_baker_stake" -> UPDATE_BAKER_STAKE
      [] w = "update_baker_restake_earnings" -> UPDATE_BAKER_RESTAKE
      [] w = "register_data" -> REGISTER_DATA
      [] w = "deploy_module" -> deploy_module(Len(a.source.bytes))
      [] w \in {"init_contract", "update_contract"} -> a.energy

\* The payload each wrapper builds from its arguments.  A WasmModule is
\* written as its version 0 and its source.
wrapper_payload(w, a) ==
    CASE w = "transfer" -> [tag |-> "Transfer", to_address |-> a.receiver, amount |-> a.amount]
      [] w = "transfer_with_memo" ->
            [tag |-> "TransferWithMemo", to_address |-> a.receiver, memo |-> a.memo,
             amount |-> a.amount]
      [] w = "encrypted_transfer" ->
            [tag |-> "EncryptedAmountTransfer", to |-> a.receiver, data |-> a.data]
      [] w = "encrypted_transfer_with_memo" ->
            [tag |-> "EncryptedAmountTransferWithMemo", to |-> a.receiver, memo |-> a.memo,
             data |-> a.data]
      [] w = "transfer_to_encrypted" -> [tag |-> "TransferToEncrypted", amount |-> a.amount]
      [] w = "transfer_to_public" -> [tag |-> "TransferToPublic", data |-> a.data]
      [] w = "transfer_with_schedule" ->
            [tag |-> "TransferWithSchedule", to |-> a.receiver, schedule |-> a.schedule]
      [] w = "transfer_with_schedule_and_memo" ->
            [tag |-> "TransferWithScheduleAndMemo", to |-> a.receiver, memo |-> a.memo,
             schedule |-> a.schedule]
      [] w = "add_baker" -> [tag |-> "AddBaker", payload |-> a.keys]
      [] w = "update_baker_keys" -> [tag |-> "UpdateBakerKeys", payload |-> a.keys]
      [] w = "remove_baker" -> [tag |-> "RemoveBaker"]
      [] w = "update_baker_stake" -> [tag |-> "UpdateBakerStake", stake |-> a.amount]
      [] w = "update_baker_restake_earnings" ->
            [tag |-> "UpdateBakerRestakeEarnings", restake_earnings |-> a.restake_earnings]
      [] w = "register_data" -> [tag |-> "RegisterData", data |-> a.data]
      [] w = "deploy_module" ->
            [tag |-> "DeployModule", module |-> [bytes |-> U32BE(0) \o a.source.bytes]]
      [] w = "init_contract" -> [tag |-> "InitContract", payload |-> a.payload]
      [] w = "update_contract" -> [tag |-> "Update", payload |-> a.payload]

-----------------------------------------------------------------------------
(* Building, signing, checking and altering a transaction. *)

B_Addresses == {1, 2}
B_Nonces == {1, 2}
B_Expiries == {1000}
B_Amounts == {100, 70000}
B_MaxReleases == 2

\* Release schedules of up to B_MaxReleases releases.
B_Schedules ==
    {<<>>} \cup {[i \in 1 .. n |-> <<1000 * i, 50>>] : n \in 1 .. B_MaxReleases}

B_Payloads ==
    {[tag |-> "Transfer", to_address |-> 2, amount |-> a] : a \in B_Amounts}
        \cup {[tag |-> "RemoveBaker"]}
        \cup {[tag |-> "UpdateBakerStake", stake |-> 100]}
        \cup {[tag |-> "UpdateBakerRestakeEarnings", restake_earnings |-> b] : b \in BOOLEAN}
        \cup {[tag |-> "TransferToEncrypted", amount |-> 100]}
        \cup {[tag |-> "TransferWithSchedule", to |-> 2, schedule |-> sc] : sc \in B_Schedules}

\* Opaque payloads a third party may hand over: encodings, an encoding with
\* a byte after it, and bytes that decode to no payload.
B_EncodedPayloads ==
    {encode(p) : p \in B_Payloads}
        \cup {[payload |-> <<5, 0>>], [payload |-> <<9>>], [payload |-> <<>>]}

\* construct::GivenEnergy values.
B_GivenEnergy ==
    {[kind |-> "Absolute", energy |-> e] : e \in {0, 501}}
        \cup {[kind |-> "Add", energy |-> e, num_sigs |-> n] : e \in {0, 300}, n \in 0 .. 2}

B_Headers ==
    {[sender |-> 1, nonce |-> n, energy_amount |-> e, payload_size |-> sz, expiry |-> 1000] :
        n \in B_Nonces, e \in {0, 501}, sz \in {0, 41}}

\* The signers: AccountKeys with one credential and one key, with two
\* credentials, and with a key too few; and a map of key pairs.
B_Signers ==
    {[kind |-> "account",
      value |-> [threshold |-> 1,
                 keys |-> (0 :> [threshold |-> 1, keys |-> (0 :> KeyPairAt(0, 0))])]],
     [kind |-> "account",
      value |-> [threshold |-> 2,
                 keys |-> (0 :> [threshold |-> 1,
                                 keys |-> (0 :> KeyPairAt(0, 0) @@ 1 :> KeyPairAt(0, 1))]
                           @@ 1 :> [threshold |-> 2,
                                    keys |-> (0 :> KeyPairAt(1, 0) @@ 1 :> KeyPairAt(1, 1))])]],
     [kind |-> "account",
      value |-> [threshold |-> 1,
                 keys |-> (0 :> [threshold |-> 2, keys |-> (0 :> KeyPairAt(0, 0))])]],
     [kind |-> "map",
      value |-> (0 :> (0 :> KeyPairAt(0, 0))
                 @@ 1 :> (0 :> KeyPairAt(1, 0) @@ 1 :> KeyPairAt(1, 1)))]}

\* The access structure of the account the signer's keys belong to: the
\* thresholds of the AccountKeys (1 for a map) and every public key.
B_AccessStructure(sg) ==
    IF sg.kind = "account"
    THEN [threshold |-> sg.value.threshold,
          keys |-> [ci \in DOMAIN sg.value.keys |->
                       [threshold |-> sg.value.keys[ci].threshold,
                        keys |-> [ki \in DOMAIN sg.value.keys[ci].keys |->
                                     VerifyKey(sg.value.keys[ci].keys[ki])]]]]
    ELSE [threshold |-> 1,
          keys |-> [ci \in DOMAIN sg.value |->
                       [threshold |-> 1,
                        keys |-> [ki \in DOMAIN sg.value[ci] |->
                                     VerifyKey(sg.value[ci][ki])]]]]

InitBuild ==
    /\ signer \in B_Signers
    /\ keys = B_AccessStructure(signer)
    /\ signature = EmptyMap
    /\ verified = <<>>
    /\ hash_to_sign = Digest(<<>>)
    /\ num_keys = <<>>
    /\ step = "new"
    /\ NoBuild
    /\ NoWire

\* construct::make_transaction, first statement: TransactionBuilder::new.
B_New(sender, nonce, expiry, energy, payload) ==
    /\ step = "new"
    /\ given' = <<energy>>
    /\ builder' = <<TransactionBuilder_new(sender, nonce, expiry, payload)>>
    /\ step' = "building"
    /\ UNCHANGED <<wvars, keys, signature, verified, hash_to_sign, signer, num_keys, pre, tx>>

\* send::make_and_sign_transaction with GivenEnergy::Add(energy): the number
\* of signatures is the signer's num_keys() (lines 2254-2263).
B_NewForSigner(sender, nonce, expiry, energy, payload) ==
    /\ step = "new"
    /\ num_keys' = <<signer_num_keys(signer)>>
    /\ given' = <<[kind |-> "Add", energy |-> energy, num_sigs |-> signer_num_keys(signer)]>>
    /\ builder' = <<TransactionBuilder_new(sender, nonce, expiry, payload)>>
    /\ step' = "building"
    /\ UNCHANGED <<wvars, keys, signature, verified, hash_to_sign, signer, pre, tx>>

\* A wrapper of module construct up to TransactionBuilder::new: the payload
\* and the energy of the wrapper go to make_transaction.
B_Wrapper(w, num_sigs, sender, nonce, expiry, a) ==
    /\ step = "new"
    /\ item' = <<[wrapper |-> w, num_sigs |-> num_sigs, args |-> a]>>
    /\ given' = <<[kind |-> "Add", energy |-> wrapper_energy(w, a), num_sigs |-> num_sigs]>>
    /\ builder' = <<TransactionBuilder_new(sender, nonce, expiry, wrapper_payload(w, a))>>
    /\ step' = "building"
    /\ UNCHANGED <<data, tx_hash, response, result, keys, signature, verified,
                   hash_to_sign, signer, num_keys, pre, tx>>

\* construct::make_transaction, last statement: builder.construct(cost); the
\* PreAccountTransaction goes to the caller and the builder is gone.
B_Construct ==
    /\ step = "building"
    /\ pre' = <<TransactionBuilder_construct(builder[1], given[1])>>
    /\ builder' = <<>>
    /\ step' = "prepared"
    /\ UNCHANGED <<wvars, keys, signature, verified, hash_to_sign, signer, num_keys, given, tx>>

\* PreAccountTransaction::sign.
B_Sign ==
    /\ step = "prepared"
    /\ tx' = <<PreAccountTransaction_sign(pre[1], signer)>>
    /\ signature' = PreAccountTransaction_sign(pre[1], signer).signature
    /\ hash_to_sign' = compute_transaction_sign_hash(pre[1].header, pre[1].encoded)
    /\ step' = "signed"
    /\ UNCHANGED <<wvars, keys, verified, signer, num_keys, given, builder, pre>>

\* sign_transaction called with a header and a payload of the caller's,
\* structured or opaque.
B_SignTransaction(header, pl) ==
    /\ step = "new"
    /\ tx' = <<sign_transaction(signer, header, pl)>>
    /\ signature' = sign_transaction(signer, header, pl).signature
    /\ hash_to_sign' = compute_transaction_sign_hash(header, pl)
    /\ step' = "signed"
    /\ UNCHANGED <<wvars, keys, verified, signer, num_keys, given, builder, pre>>

\* Another holder of keys signs the same header and payload: sign_transaction
\* on the fields of the transaction at hand.  The new transaction differs
\* from the old one in its signature map only.
B_SignAgain(sg) ==
    /\ step = "checked"
    /\ sign_transaction(sg, tx[1].header, tx[1].payload).signature # tx[1].signature
    /\ tx' = <<sign_transaction(sg, tx[1].header, tx[1].payload)>>
    /\ signature' = sign_transaction(sg, tx[1].header, tx[1].payload).signature
    /\ step' = "resigned"
    /\ UNCHANGED <<wvars, keys, verified, hash_to_sign, signer, num_keys, given, builder, pre>>

\* tx.verify_transaction_signature(&keys), on the signed transaction and
\* again on an altered or re-signed one.
B_Verify ==
    /\ step \in {"signed", "altered", "resigned"}
    /\ verified' = <<verify_transaction_signature(tx[1], keys)>>
    /\ step' = CASE step = "signed" -> "checked"
                  [] step = "altered" -> "rechecked"
                  [] step = "resigned" -> "reverified"
    /\ UNCHANGED <<wvars, keys, signature, hash_to_sign, signer, num_keys, bvars>>

\* The fields of a header and the values they may be changed to.
B_HeaderFields == {"sender", "nonce", "energy_amount", "payload_size", "expiry"}
B_FieldValues(f) ==
    CASE f = "sender" -> B_Addresses
      [] f = "nonce" -> B_Nonces
      [] f = "energy_amount" -> {0, 1, 501, 502}
      [] f = "payload_size" -> {0, 41}
      [] f = "expiry" -> {1000, 1001}

\* After a successful check somebody changes one header field and keeps the
\* signature.
B_AlterHeader(f, v) ==
    /\ step = "checked"
    /\ verified = <<TRUE>>
    /\ v # tx[1].header[f]
    /\ tx' = <<[tx[1] EXCEPT !.header[f] = v]>>
    /\ step' = "altered"
    /\ UNCHANGED <<wvars, keys, signature, verified, hash_to_sign, signer, num_keys,
                   given, builder, pre>>

\* After a successful check somebody changes byte i of the opaque payload
\* and keeps the signature.
B_AlterPayload(i, byte) ==
    /\ step = "checked"
    /\ verified = <<TRUE>>
    /\ ~IsPayload(tx[1].payload)
    /\ i \in 1 .. Len(tx[1].payload.payload)
    /\ byte # tx[1].payload.payload[i]
    /\ tx' = <<[tx[1] EXCEPT !.payload.payload[i] = byte]>>
    /\ step' = "altered"
    /\ UNCHANGED <<wvars, keys, signature, verified, hash_to_sign, signer, num_keys,
                   given, builder, pre>>

NextBuild ==
    \/ \E sender \in {1}, nonce \in B_Nonces, expiry \in B_Expiries :
          \E energy \in B_GivenEnergy, payload \in B_Payloads :
             B_New(sender, nonce, expiry, energy, payload)
    \/ \E sender \in {1}, nonce \in B_Nonces, expiry \in B_Expiries :
          \E energy \in {0, 300}, payload \in B_Payloads :
             B_NewForSigner(sender, nonce, expiry, energy, payload)
    \/ B_Construct
    \/ B_Sign
    \/ \E header \in B_Headers, pl \in B_Payloads \cup B_EncodedPayloads :
          B_SignTransaction(header, pl)
    \/ \E sg \in B_Signers : B_SignAgain(sg)
    \/ B_Verify
    \/ \E f \in B_HeaderFields : \E v \in B_FieldValues(f) : B_AlterHeader(f, v)
    \/ \E i \in 1 .. 64, byte \in {0, 255} : B_AlterPayload(i, byte)

SpecBuild == InitBuild /\ [][NextBuild]_vars

-----------------------------------------------------------------------------
(* Construction alone, with arguments up to the sizes the types allow. *)

\* A release schedule whose encoding is longer than MAX_PAYLOAD_SIZE.
C_LargeSchedule == [i \in 1 .. (MAX_PAYLOAD_SIZE \div 16) |-> <<i, 1>>] \o <<>>

\* Arguments every wrapper can be called with.
C_BaseArgs ==
    [receiver |-> 2, amount |-> 100, memo |-> Opaque(1), data |-> Opaque(1),
     keys |-> Opaque(1), restake_earnings |-> TRUE, payload |-> Opaque(1),
     source |-> [bytes |-> <<>>], energy |-> 0, schedule |-> <<>>]

\* A release schedule of 2^16 releases, one more than a u16 counts.
C_LongestSchedule == [i \in 1 .. (256 * 256) |-> <<i, 1>>] \o <<>>

\* The arguments of the wrappers: those a wrapper's energy or payload size
\* depends on vary.
C_Args(w) ==
    LET base == C_BaseArgs
    IN  CASE w \in {"transfer_with_schedule", "transfer_with_schedule_and_memo"} ->
                {[base EXCEPT !.schedule = sc] : sc \in B_Schedules \cup {C_LargeSchedule}}
          [] w = "deploy_module" ->
                {[base EXCEPT !.source = [bytes |-> [i \in 1 .. n |-> 0]]] : n \in {0, 9, 25}}
          [] w \in {"init_contract", "update_contract"} ->
                {[base EXCEPT !.energy = e] : e \in {0, 1000}}
          [] w = "transfer" -> {[base EXCEPT !.amount = x] : x \in B_Amounts}
          [] OTHER -> {base}

NextConstruct ==
    \/ \E w \in Wrappers, num_sigs \in 0 .. 3, nonce \in B_Nonces :
          \E a \in C_Args(w) : B_Wrapper(w, num_sigs, 1, nonce, 1000, a)
    \/ \E w \in {"transfer_with_schedule", "transfer_with_schedule_and_memo"} :
          B_Wrapper(w, 1, 1, 1, 1000, [C_BaseArgs EXCEPT !.schedule = C_LongestSchedule])
    \/ \E energy \in B_GivenEnergy, payload \in B_Payloads :
          B_New(1, 1, 1000, energy, payload)
    \/ B_Construct

\* The functions of module construct take the number of signatures, not a
\* signer.
InitConstruct ==
    /\ signer = NoSigner
    /\ keys = [threshold |-> 1, keys |-> EmptyMap]
    /\ signature = EmptyMap
    /\ verified = <<>>
    /\ hash_to_sign = Digest(<<>>)
    /\ num_keys = <<>>
    /\ step = "new"
    /\ NoBuild
    /\ NoWire

SpecConstruct == InitConstruct /\ [][NextConstruct]_vars

-----------------------------------------------------------------------------
(* Block items, their identity hash, and raw submission to a node. *)

\* ParseResult / RPCResult values.
Ok(v) == [ok |-> TRUE, value |-> v]
Err(e) == [ok |-> FALSE, error |-> e]

\* derive(Serialize) for UpdateHeader: the fields in declared order.
UpdateHeader_serial(h) ==
    U64BE(h.seq_number) \o U64BE(h.effective_time) \o U64BE(h.timeout)
        \o U32BE(h.payload_size)

\* The discriminant impl Serial for UpdatePayload writes for each variant.
UpdatePayload_tag(variant) ==
    CASE variant = "Protocol" -> 1
      [] variant = "ElectionDifficulty" -> 2
      [] variant = "EuroPerEnergy" -> 3
      [] variant = "MicroGTUPerEuro" -> 4
      [] variant = "FoundationAccount" -> 5
      [] variant = "MintDistribution" -> 6
      [] variant = "TransactionFeeDistribution" -> 7
      [] variant = "GASRewards" -> 8
      [] variant = "BakerStakeThreshold" -> 9
      [] variant = "Root" -> 10
      [] variant = "Level1" -> 11
      [] variant = "AddAnonymityRevoker" -> 12
      [] variant = "AddIdentityProvider" -> 13

\* impl Serial for UpdatePayload: the discriminant, then the update, whose
\* own serialization is the bytes p.body.
UpdatePayload_serial(p) == <<UpdatePayload_tag(p.variant)>> \o p.body

\* derive(Serial) for UpdateInstructionSignature with map_size_length = 2:
\* each key index in two bytes with its signature, in ascending order.
RECURSIVE serial_update_signatures(_, _)
serial_update_signatures(m, D) ==
    IF D = {} THEN <<>>
    ELSE U16BE(MinIndex(D)) \o Signature_serial(m[MinIndex(D)])
            \o serial_update_signatures(m, D \ {MinIndex(D)})

UpdateInstructionSignature_serial(sigs) ==
    U16BE(Len_(sigs)) \o serial_update_signatures(sigs, DOMAIN sigs)

\* derive(Serialize) for UpdateInstruction: header, payload, signatures.
UpdateInstruction_serial(ui) ==
    UpdateHeader_serial(ui.header) \o UpdatePayload_serial(ui.payload)
        \o UpdateInstructionSignature_serial(ui.signatures)

\* Mutant: an account transaction is written without its signature.
BlockItem_serial_NoSignature(bi) ==
    CASE bi.kind = "AccountTransaction" ->
            <<0>> \o TransactionHeader_serial(bi.value.header)
                \o encode_to_buffer(bi.value.payload)
      [] bi.kind = "CredentialDeployment" -> <<1>> \o bi.value.bytes
      [] bi.kind = "UpdateInstruction" -> <<2>> \o UpdateInstruction_serial(bi.value)

\* impl Serial for BlockItem<P>.  A credential deployment message is written
\* by its own serialization, the bytes bi.value.bytes.
BlockItem_serial(bi) ==
    CASE bi.kind = "AccountTransaction" -> <<0>> \o AccountTransaction_serial(bi.value)
      [] bi.kind = "CredentialDeployment" -> <<1>> \o bi.value.bytes
      [] bi.kind = "UpdateInstruction" -> <<2>> \o UpdateInstruction_serial(bi.value)

\* BlockItem::hash.
BlockItem_hash(bi) == Digest(BlockItem_serial(bi))

\* crypto_common::VERSION_0 and its serialization, one byte.
VERSION_0 == 0
Version_serial(v) == <<v>>

\* Mutant: the hash is taken over the block item without the version byte.
send_raw_data_HashWithoutVersion(signatures, body) ==
    LET bytes == <<0>> \o TransactionSignature_serial(signatures) \o body
    IN  [payload |-> Version_serial(VERSION_0) \o bytes, hash |-> Digest(bytes)]

\* send_raw_account_transaction up to the request: the bytes put together
\* and their hash (lines 793-804).
send_raw_data(signatures, body) ==
    LET bytes == Version_serial(VERSION_0) \o <<0>>
                    \o TransactionSignature_serial(signatures) \o body
    IN  [payload |-> bytes, hash |-> Digest(bytes)]

\* send_raw_account_transaction after the node's answer (lines 805-813).
send_raw_result(resp, h) ==
    IF ~resp.ok THEN Err(resp.error)
    ELSE IF resp.value THEN Ok(h)
    ELSE Err("Transaction was invalid and thus not accepted by the node.")

\* Payloads of the account transactions on the wire, structured and opaque.
W_Payloads ==
    LET ps == {[tag |-> "Transfer", to_address |-> 2, amount |-> 100], [tag |-> "RemoveBaker"]}
    IN  ps \cup {encode(p) : p \in ps}

W_Header(pl) ==
    [sender |-> 1, nonce |-> 1, energy_amount |-> 501,
     payload_size |-> Len(encode_to_buffer(pl)), expiry |-> 1000]

\* Signature maps: what each signer makes of the sign hash h and of another
\* hash, and the empty map.
W_Signatures(h) ==
    {sign_transaction_hash(sg, x) : sg \in B_Signers, x \in {h, Digest(<<>>)}}
        \cup {EmptyMap}

W_AccountTransactions ==
    UNION {{[signature |-> sig, header |-> W_Header(pl), payload |-> pl] :
               sig \in W_Signatures(compute_transaction_sign_hash(W_Header(pl), pl))} :
           pl \in W_Payloads}

\* Update instructions: an update of any kind with one or two signatures.
W_UpdateInstructions ==
    {[header |-> [seq_number |-> 1, effective_time |-> 0, timeout |-> 1000,
                  payload_size |-> Len(UpdatePayload_serial(p))],
      payload |-> p,
      signatures |-> [k \in K |-> Sign(KeyPairAt(0, k), Digest(UpdatePayload_serial(p)))]] :
        p \in {[variant |-> v, body |-> Opaque(7).bytes] : v \in {"Protocol", "Root", "AddIdentityProvider"}},
        K \in {{0}, {0, 1}}}

W_BlockItems ==
    {[kind |-> "AccountTransaction", value |-> t] : t \in W_AccountTransactions}
        \cup {[kind |-> "CredentialDeployment", value |-> [bytes |-> b]] :
                  b \in {<<0, 7>>, <<1, 7, 7>>}}
        \cup {[kind |-> "UpdateInstruction", value |-> ui] : ui \in W_UpdateInstructions}

\* What a caller hands to send_raw_account_transaction: signatures and a body,
\* the header and payload of a transaction or any other bytes.
W_RawTransactions ==
    {[kind |-> "Raw", signatures |-> t.signature,
      body |-> TransactionHeader_serial(t.header) \o encode_to_buffer(t.payload)] :
        t \in W_AccountTransactions}
        \cup {[kind |-> "Raw", signatures |-> sig, body |-> b] :
                  sig \in W_Signatures(Digest(<<9>>)), b \in {<<>>, <<9>>}}

\* The answers of the node: accepted, not accepted, or the call failed.
W_Responses == {Ok(TRUE), Ok(FALSE), Err("status")}

InitWire ==
    /\ item \in W_BlockItems \cup W_RawTransactions
    /\ data = <<>>
    /\ tx_hash = <<>>
    /\ response = <<>>
    /\ result = <<>>
    /\ keys = [threshold |-> 1, keys |-> EmptyMap]
    /\ signature = EmptyMap
    /\ verified = <<>>
    /\ hash_to_sign = Digest(<<>>)
    /\ signer = NoSigner
    /\ num_keys = <<>>
    /\ step = "new"
    /\ NoBuild

\* BlockItem::hash.
W_Hash ==
    /\ step = "new"
    /\ item.kind # "Raw"
    /\ tx_hash' = <<BlockItem_hash(item)>>
    /\ step' = "hashed"
    /\ UNCHANGED <<item, data, response, result, keys, signature, verified,
                   hash_to_sign, signer, num_keys, bvars>>

\* send_raw_account_transaction up to the await: the request goes out.
W_SendRaw ==
    /\ step = "new"
    /\ item.kind = "Raw"
    /\ data' = send_raw_data(item.signatures, item.body).payload
    /\ tx_hash' = <<send_raw_data(item.signatures, item.body).hash>>
    /\ step' = "sent"
    /\ UNCHANGED <<item, response, result, keys, signature, verified,
                   hash_to_sign, signer, num_keys, bvars>>

\* send_raw_account_transaction when construct_request fails (line 801):
\* the error is returned and nothing is sent.
W_ConstructRequestFails ==
    /\ step = "new"
    /\ item.kind = "Raw"
    /\ tx_hash' = <<send_raw_data(item.signatures, item.body).hash>>
    /\ result' = <<Err("token")>>
    /\ step' = "returned"
    /\ UNCHANGED <<item, data, response, keys, signature, verified,
                   hash_to_sign, signer, num_keys, bvars>>

\* The node answers the request, or the call fails.
W_NodeAnswers(r) ==
    /\ step = "sent"
    /\ response' = <<r>>
    /\ step' = "answered"
    /\ UNCHANGED <<item, data, tx_hash, result, keys, signature, verified,
                   hash_to_sign, signer, num_keys, bvars>>

\* send_raw_account_transaction after the await.
W_Return ==
    /\ step = "answered"
    /\ result' = <<send_raw_result(response[1], tx_hash[1])>>
    /\ step' = "returned"
    /\ UNCHANGED <<item, data, tx_hash, response, keys, signature, verified,
                   hash_to_sign, signer, num_keys, bvars>>

NextWire ==
    \/ W_Hash
    \/ W_SendRaw
    \/ W_ConstructRequestFails
    \/ \E r \in W_Responses : W_NodeAnswers(r)
    \/ W_Return

SpecWire == InitWire /\ [][NextWire]_vars

-----------------------------------------------------------------------------
(* Decoding.  A reader is given the bytes left in the source and returns    *)
(* the value read together with the bytes left after it, or an error.       *)

Got(v, rest) == [ok |-> TRUE, value |-> v, rest |-> rest]

\* The bytes of src from position n + 1 on.
Drop(src, n) == SubSeq(src, n + 1, Len(src))

\* u32::deserial.  A number of 2^31 or more is outside the integers of the
\* model and is kept as its bytes.
U32FromBE(bs) ==
    IF bs[1] < 128 THEN ((bs[1] * 256 + bs[2]) * 256 + bs[3]) * 256 + bs[4]
    ELSE [u32 |-> bs]

\* u64::deserial, likewise.
U64FromBE(bs) ==
    IF SubSeq(bs, 1, 4) = <<0, 0, 0, 0>> /\ bs[5] < 128
    THEN U32FromBE(SubSeq(bs, 5, 8))
    ELSE [u64 |-> bs]

\* source.get() for the types read in this file.  The address made of 32
\* bytes a is address a of the model; a signature is the inverse of
\* SignatureBytes.
get(src, type) ==
    CASE type = "u8" -> IF Len(src) >= 1 THEN Got(src[1], Drop(src, 1)) ELSE Err("eof")
      [] type = "bool" ->
            IF Len(src) >= 1 /\ src[1] \in {0, 1} THEN Got(src[1] = 1, Drop(src, 1))
            ELSE Err("bool")
      [] type = "u16" ->
            IF Len(src) >= 2 THEN Got(src[1] * 256 + src[2], Drop(src, 2)) ELSE Err("eof")
      [] type = "u32" ->
            IF Len(src) >= 4 THEN Got(U32FromBE(SubSeq(src, 1, 4)), Drop(src, 4)) ELSE Err("eof")
      [] type = "u64" ->
            IF Len(src) >= 8 THEN Got(U64FromBE(SubSeq(src, 1, 8)), Drop(src, 8)) ELSE Err("eof")
      [] type = "AccountAddress" ->
            IF Len(src) < 32 THEN Err("eof")
            ELSE IF \A i \in 1 .. 32 : src[i] = src[1] THEN Got(src[1], Drop(src, 32))
            ELSE Got([address |-> SubSeq(src, 1, 32)], Drop(src, 32))
      [] type = "opaque" ->
            IF Len(src) >= OpaqueLen THEN Got([bytes |-> SubSeq(src, 1, OpaqueLen)], Drop(src, OpaqueLen))
            ELSE Err("eof")
      [] type = "Signature" ->
            IF Len(src) < 2 \/ Len(src) < 2 + src[1] * 256 + src[2] THEN Err("eof")
            ELSE LET n == src[1] * 256 + src[2]
                 IN  IF n = 0 THEN Got([bytes |-> <<>>], Drop(src, 2))
                     ELSE Got([by |-> src[3], over |-> Digest(SubSeq(src, 4, 2 + n))],
                              Drop(src, 2 + n))

\* The operator `?`: what follows is computed from a value that was read, and
\* an error is handed on.
Try(r, Then(_)) == IF r.ok THEN Then(r) ELSE r

\* Consecutive source.get()? calls: the values read, or the first error.
RECURSIVE get_fields(_, _)
get_fields(src, types) ==
    IF types = <<>> THEN Got(<<>>, src)
    ELSE Try(get(src, Head(types)), LAMBDA r :
         Try(get_fields(r.rest, Tail(types)), LAMBDA rs :
         Got(<<r.value>> \o rs.value, rs.rest)))

\* n entries, each made of the fields `types`.
RECURSIVE get_entries(_, _, _)
get_entries(src, n, types) ==
    IF n = 0 THEN Got(<<>>, src)
    ELSE Try(get_fields(src, types), LAMBDA r :
         Try(get_entries(r.rest, n - 1, types), LAMBDA rs :
         Got(<<r.value>> \o rs.value, rs.rest)))

\* Mutant: the last entry of a vector is not read.
deserial_vector_no_length_OneShort(src, n, types) ==
    get_entries(src, IF n > 0 THEN n - 1 ELSE 0, types)

\* crypto_common::deserial_vector_no_length.
deserial_vector_no_length(src, n, types) == get_entries(src, n, types)

\* crypto_common::deserial_map_no_length: n entries of an index and a value,
\* the indices in strictly ascending order.
deserial_map_no_length(src, n, types) ==
    Try(get_entries(src, n, types), LAMBDA r :
    IF \E i \in 1 .. (n - 1) : r.value[i][1] >= r.value[i + 1][1] THEN Err("order")
    ELSE Got([k \in {r.value[i][1] : i \in 1 .. n} |->
                 (CHOOSE e \in {r.value[i] : i \in 1 .. n} : e[1] = k)[2]],
             r.rest))

\* impl Deserial for Payload, after the tag byte.
Payload_deserial_variant(tag, src) ==
    CASE tag = 19 ->
            Try(get_fields(src, <<"AccountAddress", "u8">>), LAMBDA r :
            Try(deserial_vector_no_length(r.rest, r.value[2], <<"u64", "u64">>), LAMBDA v :
            Got([tag |-> "TransferWithSchedule", to |-> r.value[1], schedule |-> v.value],
                v.rest)))
      [] tag = 24 ->
            Try(get_fields(src, <<"AccountAddress", "opaque", "u8">>), LAMBDA r :
            Try(deserial_vector_no_length(r.rest, r.value[3], <<"u64", "u64">>), LAMBDA v :
            Got([tag |-> "TransferWithScheduleAndMemo", to |-> r.value[1],
                 memo |-> r.value[2], schedule |-> v.value], v.rest)))
      [] tag = 20 ->
            Try(get(src, "u8"), LAMBDA n :
            Try(deserial_map_no_length(n.rest, n.value, <<"u8", "opaque">>), LAMBDA infos :
            Try(get(infos.rest, "u8"), LAMBDA k :
            Try(deserial_vector_no_length(k.rest, k.value, <<"opaque">>), LAMBDA ids :
            Try(get(ids.rest, "u8"), LAMBDA t :
            Got([tag |-> "UpdateCredentials",
                 new_cred_infos |-> infos.value,
                 remove_cred_ids |-> [i \in 1 .. Len(ids.value) |-> ids.value[i][1]],
                 new_threshold |-> t.value], t.rest))))))
      [] tag = 0 ->
            Try(get_fields(src, <<"opaque">>), LAMBDA r :
            Got([tag |-> "DeployModule", module |-> r.value[1]], r.rest))
      [] tag = 1 ->
            Try(get_fields(src, <<"opaque">>), LAMBDA r :
            Got([tag |-> "InitContract", payload |-> r.value[1]], r.rest))
      [] tag = 2 ->
            Try(get_fields(src, <<"opaque">>), LAMBDA r :
            Got([tag |-> "Update", payload |-> r.value[1]], r.rest))
      [] tag = 3 ->
            Try(get_fields(src, <<"AccountAddress", "u64">>), LAMBDA r :
            Got([tag |-> "Transfer", to_address |-> r.value[1], amount |-> r.value[2]], r.rest))
      [] tag = 4 ->
            Try(get_fields(src, <<"opaque">>), LAMBDA r :
            Got([tag |-> "AddBaker", payload |-> r.value[1]], r.rest))
      [] tag = 5 -> Got([tag |-> "RemoveBaker"], src)
      [] tag = 6 ->
            Try(get_fields(src, <<"u64">>), LAMBDA r :
            Got([tag |-> "UpdateBakerStake", stake |-> r.value[1]], r.rest))
      [] tag = 7 ->
            Try(get_fields(src, <<"bool">>), LAMBDA r :
            Got([tag |-> "UpdateBakerRestakeEarnings", restake_earnings |-> r.value[1]], r.rest))
      [] tag = 8 ->
            Try(get_fields(src, <<"opaque">>), LAMBDA r :
            Got([tag |-> "UpdateBakerKeys", payload |-> r.value[1]], r.rest))
      [] tag = 13 ->
            Try(get_fields(src, <<"opaque", "opaque">>), LAMBDA r :
            Got([tag |-> "UpdateCredentialKeys", cred_id |-> r.value[1], keys |-> r.value[2]],
                r.rest))
      [] tag = 16 ->
            Try(get_fields(src, <<"AccountAddress", "opaque">>), LAMBDA r :
            Got([tag |-> "EncryptedAmountTransfer", to |-> r.value[1], data |-> r.value[2]],
                r.rest))
      [] tag = 17 ->
            Try(get_fields(src, <<"u64">>), LAMBDA r :
            Got([tag |-> "TransferToEncrypted", amount |-> r.value[1]], r.rest))
      [] tag = 18 ->
            Try(get_fields(src, <<"opaque">>), LAMBDA r :
            Got([tag |-> "TransferToPublic", data |-> r.value[1]], r.rest))
      [] tag = 21 ->
            Try(get_fields(src, <<"opaque">>), LAMBDA r :
            Got([tag |-> "RegisterData", data |-> r.value[1]], r.rest))
      [] tag = 22 ->
            Try(get_fields(src, <<"AccountAddress", "opaque", "u64">>), LAMBDA r :
            Got([tag |-> "TransferWithMemo", to_address |-> r.value[1],
                 memo |-> r.value[2], amount |-> r.value[3]], r.rest))
      [] tag = 23 ->
            Try(get_fields(src, <<"AccountAddress", "opaque", "opaque">>), LAMBDA r :
            Got([tag |-> "EncryptedAmountTransferWithMemo", to |-> r.value[1],
                 memo |-> r.value[2], data |-> r.value[3]], r.rest))
      [] OTHER -> Err("Unsupported transaction payload tag")

\* Mutant: a discriminant that is not known gives a default variant.
Payload_deserial_Default(src) ==
    Try(get(src, "u8"), LAMBDA tag :
    LET p == Payload_deserial_variant(tag.value, tag.rest) IN
    IF p.ok THEN p ELSE Got([tag |-> "RemoveBaker"], tag.rest))

\* impl Deserial for Payload.
Payload_deserial(src) ==
    Try(get(src, "u8"), LAMBDA tag : Payload_deserial_variant(tag.value, tag.rest))

\* Mutant: bytes left after the payload are ignored.
EncodedPayload_decode_Lenient(e) ==
    Try(Payload_deserial(e.payload), LAMBDA r : Ok(r.value))

\* EncodedPayload::decode: the position of the cursor after the payload is
\* compared with the length of the bytes.
EncodedPayload_decode(e) ==
    Try(Payload_deserial(e.payload), LAMBDA r :
    IF Len(e.payload) - Len(r.rest) = Len(e.payload) THEN Ok(r.value)
    ELSE Err("Payload length information is inaccurate"))

\* Mutant: the maximum itself is refused.
PayloadSize_deserial_Strict(src) ==
    Try(get(src, "u32"), LAMBDA size :
    IF size.value < MAX_PAYLOAD_SIZE THEN size
    ELSE Err("Size of the payload exceeds maximum allowed."))

\* impl Deserial for PayloadSize.
PayloadSize_deserial(src) ==
    Try(get(src, "u32"), LAMBDA size :
    IF size.value <= MAX_PAYLOAD_SIZE THEN size
    ELSE Err("Size of the payload exceeds maximum allowed."))

\* derive(Serialize) for TransactionHeader: the fields in declared order.
TransactionHeader_deserial(src) ==
    Try(get_fields(src, <<"AccountAddress", "u64", "u64">>), LAMBDA a :
    Try(PayloadSize_deserial(a.rest), LAMBDA size :
    Try(get(size.rest, "u64"), LAMBDA expiry :
    Got([sender |-> a.value[1], nonce |-> a.value[2], energy_amount |-> a.value[3],
         payload_size |-> size.value, expiry |-> expiry.value], expiry.rest))))

\* derive(Serialize) for UpdateHeader.
UpdateHeader_deserial(src) ==
    Try(get_fields(src, <<"u64", "u64", "u64">>), LAMBDA a :
    Try(PayloadSize_deserial(a.rest), LAMBDA size :
    Got([seq_number |-> a.value[1], effective_time |-> a.value[2],
         timeout |-> a.value[3], payload_size |-> size.value], size.rest)))

\* TransactionSignature::deserial, the loop: n credentials, each an index, a
\* number of signatures and that many key indices with signatures.
RECURSIVE deserial_credentials(_, _)
deserial_credentials(src, n) ==
    IF n = 0 THEN Got(EmptyMap, src)
    ELSE Try(get_fields(src, <<"u8", "u8">>), LAMBDA c :
         Try(deserial_map_no_length(c.rest, c.value[2], <<"u8", "Signature">>), LAMBDA m :
         Try(deserial_credentials(m.rest, n - 1), LAMBDA rs :
         Got(MapInsert(rs.value, c.value[1], m.value), rs.rest))))

\* TransactionSignature::deserial.
TransactionSignature_deserial(src) ==
    Try(get(src, "u8"), LAMBDA n : deserial_credentials(n.rest, n.value))

\* source.take(limit): at most limit bytes of src can be read.
source_take(src, limit) == SubSeq(src, 1, IF limit <= Len(src) THEN limit ELSE Len(src))

\* Mutant: what is left of the declared size is not looked at.
AccountTransaction_deserial_NoLimitCheck(src) ==
    Try(TransactionSignature_deserial(src), LAMBDA sig :
    Try(TransactionHeader_deserial(sig.rest), LAMBDA header :
    Try(Payload_deserial(source_take(header.rest, header.value.payload_size)), LAMBDA payload :
    Got([signature |-> sig.value, header |-> header.value, payload |-> payload.value],
        Drop(header.rest, header.value.payload_size)))))

\* impl Deserial for AccountTransaction<Payload>: the payload is read from
\* source.take(payload_size), and limit() is what of payload_size was not read.
AccountTransaction_deserial(src) ==
    Try(TransactionSignature_deserial(src), LAMBDA sig :
    Try(TransactionHeader_deserial(sig.rest), LAMBDA header :
    Try(Payload_deserial(source_take(header.rest, header.value.payload_size)), LAMBDA payload :
    IF header.value.payload_size
           - (Len(source_take(header.rest, header.value.payload_size)) - Len(payload.rest)) = 0
    THEN Got([signature |-> sig.value, header |-> header.value, payload |-> payload.value],
             Drop(header.rest, header.value.payload_size))
    ELSE Err("Payload length information is inaccurate"))))

\* impl Deserial for AccountTransaction<EncodedPayload>, with
\* get_encoded_payload.
AccountTransaction_Encoded_deserial(src) ==
    Try(TransactionSignature_deserial(src), LAMBDA sig :
    Try(TransactionHeader_deserial(sig.rest), LAMBDA header :
    IF Len(header.rest) < header.value.payload_size THEN Err("eof")
    ELSE Got([signature |-> sig.value, header |-> header.value,
              payload |-> [payload |-> SubSeq(header.rest, 1, header.value.payload_size)]],
             Drop(header.rest, header.value.payload_size))))

\* The variant impl Deserial for UpdatePayload makes of each discriminant.
UpdatePayload_variant(tag) ==
    CASE tag = 1 -> <<"Protocol">>
      [] tag = 2 -> <<"ElectionDifficulty">>
      [] tag = 3 -> <<"EuroPerEnergy">>
      [] tag = 4 -> <<"MicroGTUPerEuro">>
      [] tag = 5 -> <<"FoundationAccount">>
      [] tag = 6 -> <<"MintDistribution">>
      [] tag = 7 -> <<"TransactionFeeDistribution">>
      [] tag = 8 -> <<"GASRewards">>
      [] tag = 9 -> <<"BakerStakeThreshold">>
      [] tag = 10 -> <<"Root">>
      [] tag = 11 -> <<"Level1">>
      [] tag = 12 -> <<"AddAnonymityRevoker">>
      [] tag = 13 -> <<"AddIdentityProvider">>
      [] OTHER -> <<>>

\* impl Deserial for UpdatePayload.
UpdatePayload_deserial(src) ==
    Try(get(src, "u8"), LAMBDA tag :
    IF UpdatePayload_variant(tag.value) = <<>> THEN Err("Unknown update payload tag")
    ELSE Try(get(tag.rest, "opaque"), LAMBDA body :
         Got([variant |-> UpdatePayload_variant(tag.value)[1], body |-> body.value.bytes],
             body.rest)))

\* Mutant: a count of zero is read as an empty map.
UpdateInstructionSignature_deserial_AllowEmpty(src) ==
    Try(get(src, "u16"), LAMBDA len :
    deserial_map_no_length(len.rest, len.value, <<"u16", "Signature">>))

\* impl Deserial for UpdateInstructionSignature.
UpdateInstructionSignature_deserial(src) ==
    Try(get(src, "u16"), LAMBDA len :
    IF len.value = 0 THEN Err("There must be at least one signature.")
    ELSE deserial_map_no_length(len.rest, len.value, <<"u16", "Signature">>))

\* derive(Serialize) for UpdateInstruction: header, payload, signatures.
UpdateInstruction_deserial(src) ==
    Try(UpdateHeader_deserial(src), LAMBDA header :
    Try(UpdatePayload_deserial(header.rest), LAMBDA payload :
    Try(UpdateInstructionSignature_deserial(payload.rest), LAMBDA sigs :
    Got([header |-> header.value, payload |-> payload.value, signatures |-> sigs.value],
        sigs.rest))))

-----------------------------------------------------------------------------
(* Encoding a value, handing the bytes over, and decoding them. *)

\* crypto_common::to_bytes for the types of this file.
serial(kind, v) ==
    CASE kind = "Payload" -> Payload_serial(v)
      [] kind = "AccountTransaction" -> AccountTransaction_serial(v)
      [] kind = "PayloadSize" -> U32BE(v)
      [] kind = "TransactionHeader" -> TransactionHeader_serial(v)
      [] kind = "UpdateHeader" -> UpdateHeader_serial(v)
      [] kind = "UpdatePayload" -> UpdatePayload_serial(v)
      [] kind = "UpdateInstructionSignature" -> UpdateInstructionSignature_serial(v)
      [] kind = "UpdateInstruction" -> UpdateInstruction_serial(v)

\* source.get::<T>() for the types of this file.
deserial(kind, src) ==
    CASE kind = "Payload" -> Payload_deserial(src)
      [] kind = "AccountTransaction" -> AccountTransaction_deserial(src)
      [] kind = "PayloadSize" -> PayloadSize_deserial(src)
      [] kind = "TransactionHeader" -> TransactionHeader_deserial(src)
      [] kind = "UpdateHeader" -> UpdateHeader_deserial(src)
      [] kind = "UpdatePayload" -> UpdatePayload_deserial(src)
      [] kind = "UpdateInstructionSignature" -> UpdateInstructionSignature_deserial(src)
      [] kind = "UpdateInstruction" -> UpdateInstruction_deserial(src)

\* Payloads of every variant.
D_Payloads ==
    B_Payloads
        \cup {[tag |-> t, payload |-> Opaque(1)] :
                  t \in {"InitContract", "Update", "AddBaker", "UpdateBakerKeys"}}
        \cup {[tag |-> t, data |-> Opaque(1)] : t \in {"TransferToPublic", "RegisterData"}}
        \cup {[tag |-> "DeployModule", module |-> Opaque(1)],
               [tag |-> "UpdateCredentialKeys", cred_id |-> Opaque(1), keys |-> Opaque(2)],
               [tag |-> "EncryptedAmountTransfer", to |-> 2, data |-> Opaque(1)],
               [tag |-> "TransferWithMemo", to_address |-> 2, memo |-> Opaque(1), amount |-> 100],
               [tag |-> "EncryptedAmountTransferWithMemo", to |-> 2, memo |-> Opaque(1),
                data |-> Opaque(3)]}
        \cup {[tag |-> "UpdateCredentials", new_cred_infos |-> [c \in C |-> Opaque(3)],
                remove_cred_ids |-> [i \in 1 .. n |-> Opaque(4)], new_threshold |-> 1] :
                  C \in {{}, {0}, {0, 1}}, n \in 0 .. 2}
        \cup {[tag |-> "TransferWithScheduleAndMemo", to |-> 2, memo |-> Opaque(1),
                schedule |-> sc] : sc \in B_Schedules}

\* Declared payload sizes around the maximum.
D_Sizes == {0, 41, MAX_PAYLOAD_SIZE - 1, MAX_PAYLOAD_SIZE, MAX_PAYLOAD_SIZE + 1, 2147483647}

\* Signatures of an update instruction by no, one or two keys.
D_UpdateSignatures ==
    {[k \in K |-> Sign(KeyPairAt(0, k), Digest(<<7>>))] : K \in {{}, {0}, {0, 1}}}

\* The values that are encoded.
D_Items ==
    {[kind |-> "Payload", value |-> pl] : pl \in D_Payloads}
        \cup {[kind |-> "AccountTransaction",
                value |-> sign_transaction(sg, W_Header(pl), pl)] :
                  sg \in B_Signers, pl \in B_Payloads}
        \cup {[kind |-> "PayloadSize", value |-> n] : n \in D_Sizes}
        \cup {[kind |-> "TransactionHeader",
                value |-> [sender |-> 1, nonce |-> 1, energy_amount |-> 501,
                           payload_size |-> n, expiry |-> 1000]] : n \in D_Sizes}
        \cup {[kind |-> "UpdateHeader",
                value |-> [seq_number |-> 1, effective_time |-> 0, timeout |-> 1000,
                           payload_size |-> n]] : n \in D_Sizes}
        \cup {[kind |-> "UpdatePayload", value |-> [variant |-> UpdatePayload_variant(t)[1],
                                                    body |-> Opaque(7).bytes]] : t \in 1 .. 13}
        \cup {[kind |-> "UpdateInstructionSignature", value |-> sigs] :
                  sigs \in D_UpdateSignatures}
        \cup {[kind |-> "UpdateInstruction",
                value |-> [header |-> [seq_number |-> 1, effective_time |-> 0,
                                       timeout |-> 1000, payload_size |-> n],
                           payload |-> [variant |-> "Root", body |-> Opaque(7).bytes],
                           signatures |-> sigs]] :
                  n \in {1 + OpaqueLen, MAX_PAYLOAD_SIZE + 1}, sigs \in D_UpdateSignatures}

InitDecode ==
    /\ item \in D_Items
    /\ data = <<>>
    /\ tx_hash = <<>>
    /\ response = <<>>
    /\ result = <<>>
    /\ keys = [threshold |-> 1, keys |-> EmptyMap]
    /\ signature = EmptyMap
    /\ verified = <<>>
    /\ hash_to_sign = Digest(<<>>)
    /\ signer = NoSigner
    /\ num_keys = <<>>
    /\ step = "new"
    /\ NoBuild

\* The value is serialized.
D_Encode ==
    /\ step = "new"
    /\ data' = serial(item.kind, item.value)
    /\ step' = "encoded"
    /\ UNCHANGED <<item, tx_hash, response, result, keys, signature, verified,
                   hash_to_sign, signer, num_keys, bvars>>

\* On the way the first byte, the discriminant of a payload, is changed.
D_SetFirstByte(b) ==
    /\ step = "encoded"
    /\ item.kind \in {"Payload", "UpdatePayload"}
    /\ b # data[1]
    /\ data' = [data EXCEPT ![1] = b]
    /\ step' = "altered"
    /\ UNCHANGED <<item, tx_hash, response, result, keys, signature, verified,
                   hash_to_sign, signer, num_keys, bvars>>

\* On the way a byte is added at the end.
D_Append(b) ==
    /\ step = "encoded"
    /\ data' = Append(data, b)
    /\ step' = "altered"
    /\ UNCHANGED <<item, tx_hash, response, result, keys, signature, verified,
                   hash_to_sign, signer, num_keys, bvars>>

\* On the way the last byte is lost.
D_Truncate ==
    /\ step = "encoded"
    /\ data # <<>>
    /\ data' = SubSeq(data, 1, Len(data) - 1)
    /\ step' = "altered"
    /\ UNCHANGED <<item, tx_hash, response, result, keys, signature, verified,
                   hash_to_sign, signer, num_keys, bvars>>

\* The position in a serialized account transaction after which the four
\* bytes of header.payload_size are.
PayloadSizeOffset(t) == Len(TransactionSignature_serial(t.signature)) + 32 + 8 + 8

\* On the way the declared payload size of a transaction is changed, a byte
\* being added after the payload or not.
D_SetPayloadSize(n, extra) ==
    /\ step = "encoded"
    /\ item.kind = "AccountTransaction"
    /\ n >= 0
    /\ n # item.value.header.payload_size
    /\ data' = SubSeq(data, 1, PayloadSizeOffset(item.value)) \o U32BE(n)
                   \o Drop(data, PayloadSizeOffset(item.value) + 4) \o extra
    /\ step' = "altered"
    /\ UNCHANGED <<item, tx_hash, response, result, keys, signature, verified,
                   hash_to_sign, signer, num_keys, bvars>>

\* source.get() of the type the bytes are taken for.
D_Deserial ==
    /\ step \in {"encoded", "altered"}
    /\ result' = <<deserial(item.kind, data)>>
    /\ step' = "deserialized"
    /\ UNCHANGED <<item, data, tx_hash, response, keys, signature, verified,
                   hash_to_sign, signer, num_keys, bvars>>

\* EncodedPayload { payload: data }.decode().
D_Decode ==
    /\ step \in {"encoded", "altered"}
    /\ item.kind = "Payload"
    /\ result' = <<EncodedPayload_decode([payload |-> data])>>
    /\ step' = "decoded"
    /\ UNCHANGED <<item, data, tx_hash, response, keys, signature, verified,
                   hash_to_sign, signer, num_keys, bvars>>

\* source.get::<AccountTransaction<EncodedPayload>>().
D_DeserialEncoded ==
    /\ step \in {"encoded", "altered"}
    /\ item.kind = "AccountTransaction"
    /\ result' = <<AccountTransaction_Encoded_deserial(data)>>
    /\ step' = "deserialized_encoded"
    /\ UNCHANGED <<item, data, tx_hash, response, keys, signature, verified,
                   hash_to_sign, signer, num_keys, bvars>>

NextDecode ==
    \/ D_Encode
    \/ \E b \in 0 .. 255 : D_SetFirstByte(b)
    \/ \E b \in {0, 5} : D_Append(b)
    \/ D_Truncate
    \/ \E d \in {-2, -1, 1, 2}, extra \in {<<>>, <<0>>, <<0, 0>>} :
          D_SetPayloadSize(item.value.header.payload_size + d, extra)
    \/ \E n \in D_Sizes : D_SetPayloadSize(n, <<>>)
    \/ D_Deserial
    \/ D_Decode
    \/ D_DeserialEncoded

SpecDecode == InitDecode /\ [][NextDecode]_vars

-----------------------------------------------------------------------------
(* Payloads whose collections hold more entries than a byte counts. *)

\* Release schedules of more than 255 releases.
L_Schedules == {[i \in 1 .. n |-> <<i, 50>>] \o <<>> : n \in {256, 257, 258, 512, 513}}

\* Lists of 256 and of 257 credential ids.
L_CredIds == {[i \in 1 .. n |-> Opaque(4)] \o <<>> : n \in {256, 257}}

L_Payloads ==
    {[tag |-> "TransferWithSchedule", to |-> 2, schedule |-> sc] : sc \in L_Schedules}
        \cup {[tag |-> "TransferWithScheduleAndMemo", to |-> 2, memo |-> Opaque(1),
                schedule |-> sc] : sc \in L_Schedules}
        \cup {[tag |-> "UpdateCredentials", new_cred_infos |-> [c \in {0} |-> Opaque(3)],
                remove_cred_ids |-> ids, new_threshold |-> 1] : ids \in L_CredIds}
        \cup {[tag |-> "UpdateCredentials", new_cred_infos |-> [c \in 0 .. 255 |-> Opaque(3)],
                remove_cred_ids |-> ids, new_threshold |-> 1] :
                  ids \in {<<>>, <<Opaque(4)>>}}

InitLong ==
    /\ item \in {[kind |-> "Payload", value |-> pl] : pl \in L_Payloads}
    /\ data = <<>>
    /\ tx_hash = <<>>
    /\ response = <<>>
    /\ result = <<>>
    /\ keys = [threshold |-> 1, keys |-> EmptyMap]
    /\ signature = EmptyMap
    /\ verified = <<>>
    /\ hash_to_sign = Digest(<<>>)
    /\ signer = NoSigner
    /\ num_keys = <<>>
    /\ step = "new"
    /\ NoBuild

NextLong ==
    \/ D_Encode
    \/ \E b \in {0, 5} : D_Append(b)
    \/ D_Truncate
    \/ D_Deserial
    \/ D_Decode

SpecLong == InitLong /\ [][NextLong]_vars

-----------------------------------------------------------------------------
(* Update instructions built and signed by update::update. *)

\* update::compute_sign_hash: the digest of the header and the serialized
\* payload.
update_compute_sign_hash(header, payload) == Digest(UpdateHeader_serial(header) \o payload)

\* impl UpdateSigner for BTreeMap<UpdateKeysIndex, KeyPair>: one signature
\* for each key of the map.
BTreeMap_sign_update_hash(m, hash) == [ki \in DOMAIN m |-> Sign(m[ki], hash)]

\* impl UpdateSigner for &[(UpdateKeysIndex, KeyPair)]: the pairs are
\* collected into a map, where the last pair with an index is the one kept.
Slice_sign_update_hash(s, hash) ==
    [ki \in {s[i][1] : i \in 1 .. Len(s)} |->
        LET last == CHOOSE i \in 1 .. Len(s) :
                        /\ s[i][1] = ki
                        /\ \A j \in 1 .. Len(s) : s[j][1] = ki => j <= i
        IN  Sign(s[last][2], hash)]

sign_update_hash(sg, hash) ==
    IF sg.kind = "update_map"
    THEN BTreeMap_sign_update_hash(sg.value, hash)
    ELSE Slice_sign_update_hash(sg.value, hash)

\* update::update.
update_update(sg, seq_number, effective_time, timeout, payload) ==
    LET serialized_payload == UpdatePayload_serial(payload)
        header == [seq_number |-> seq_number, effective_time |-> effective_time,
                   timeout |-> timeout, payload_size |-> Len(serialized_payload)]
    IN  [header |-> header, payload |-> payload,
         signatures |-> sign_update_hash(sg, update_compute_sign_hash(header, serialized_payload))]

\* Signers of updates: maps and slices of up to two keys, a slice that names
\* an index twice, and the signers that hold no key.
U_Signers ==
    {[kind |-> "update_map", value |-> [ki \in K |-> KeyPairAt(0, ki)]] :
        K \in SUBSET {0, 1}}
        \cup {[kind |-> "update_slice", value |-> s] :
                  s \in {<<>>, <<<<0, KeyPairAt(0, 0)>>>>,
                         <<<<1, KeyPairAt(0, 1)>>, <<0, KeyPairAt(0, 0)>>>>,
                         <<<<0, KeyPairAt(0, 0)>>, <<0, KeyPairAt(0, 1)>>>>}}

U_Payloads ==
    {[variant |-> v, body |-> Opaque(7).bytes] : v \in {"Protocol", "Root", "AddIdentityProvider"}}

\* The arguments of a call of update::update.
InitUpdate ==
    /\ signer \in U_Signers
    /\ item \in {[kind |-> "UpdateCall", seq_number |-> sn, effective_time |-> et,
                  timeout |-> 1000, payload |-> p] :
                     sn \in {1, 2}, et \in {0, 500}, p \in U_Payloads}
    /\ data = <<>>
    /\ tx_hash = <<>>
    /\ response = <<>>
    /\ result = <<>>
    /\ keys = [threshold |-> 1, keys |-> EmptyMap]
    /\ signature = EmptyMap
    /\ verified = <<>>
    /\ hash_to_sign = Digest(<<>>)
    /\ num_keys = <<>>
    /\ step = "new"
    /\ NoBuild

\* update::update.
U_Update ==
    /\ step = "new"
    /\ tx' = <<update_update(signer, item.seq_number, item.effective_time,
                             item.timeout, item.payload)>>
    /\ step' = "built"
    /\ UNCHANGED <<wvars, keys, signature, verified, hash_to_sign, signer, num_keys,
                   given, builder, pre>>

\* The instruction is serialized.
U_Serial ==
    /\ step = "built"
    /\ data' = UpdateInstruction_serial(tx[1])
    /\ step' = "encoded"
    /\ UNCHANGED <<item, tx_hash, response, result, keys, signature, verified,
                   hash_to_sign, signer, num_keys, bvars>>

\* The bytes are read as an UpdateInstruction.
U_Deserial ==
    /\ step = "encoded"
    /\ result' = <<UpdateInstruction_deserial(data)>>
    /\ step' = "deserialized"
    /\ UNCHANGED <<item, data, tx_hash, response, keys, signature, verified,
                   hash_to_sign, signer, num_keys, bvars>>

NextUpdate == U_Update \/ U_Serial \/ U_Deserial

SpecUpdate == InitUpdate /\ [][NextUpdate]_vars

-----------------------------------------------------------------------------
(* Prepared transactions: made by module construct or read from bytes, then *)
(* open to the caller through their public fields, then signed.             *)

\* impl Deserial for PreAccountTransaction, with get_encoded_payload.
PreAccountTransaction_deserial(src) ==
    Try(TransactionHeader_deserial(src), LAMBDA header :
    IF Len(header.rest) < header.value.payload_size THEN Err("eof")
    ELSE Try(EncodedPayload_decode(
                 [payload |-> SubSeq(header.rest, 1, header.value.payload_size)]),
         LAMBDA payload :
    Got([header |-> header.value,
         payload |-> payload.value,
         encoded |-> [payload |-> SubSeq(header.rest, 1, header.value.payload_size)],
         hash_to_sign |-> compute_transaction_sign_hash(
                              header.value,
                              [payload |-> SubSeq(header.rest, 1, header.value.payload_size)])],
        Drop(header.rest, header.value.payload_size))))

\* Bytes a prepared transaction is read from: the serialization of one, the
\* same followed by a byte, and with a payload size that is one too large.
P_Bytes ==
    UNION {{TransactionHeader_serial(W_Header(pl)) \o encode_to_buffer(pl),
            TransactionHeader_serial(W_Header(pl)) \o encode_to_buffer(pl) \o <<0>>,
            TransactionHeader_serial([W_Header(pl) EXCEPT !.payload_size = @ + 1])
                \o encode_to_buffer(pl) \o <<0>>} : pl \in B_Payloads}

\* The values a caller may assign to a public field of a prepared
\* transaction.
P_FieldValues(f) ==
    CASE f = "header" ->
            {[sender |-> 1, nonce |-> n, energy_amount |-> e, payload_size |-> 41,
              expiry |-> 1000] : n \in B_Nonces, e \in {0, 501}}
      [] f = "payload" -> {[tag |-> "RemoveBaker"], [tag |-> "Transfer", to_address |-> 2, amount |-> 100]}
      [] f = "encoded" -> {encode([tag |-> "RemoveBaker"]), [payload |-> <<>>]}
      [] f = "hash_to_sign" -> {Digest(<<>>)}

InitPrepared ==
    /\ signer \in B_Signers
    /\ keys = [threshold |-> 1, keys |-> EmptyMap]
    /\ signature = EmptyMap
    /\ verified = <<>>
    /\ hash_to_sign = Digest(<<>>)
    /\ num_keys = <<>>
    /\ step = "new"
    /\ NoBuild
    /\ NoWire

\* Bytes arrive.
P_Receive(bytes) ==
    /\ step = "new"
    /\ data' = bytes
    /\ step' = "received"
    /\ UNCHANGED <<item, tx_hash, response, result, keys, signature, verified,
                   hash_to_sign, signer, num_keys, bvars>>

\* source.get::<PreAccountTransaction>().
P_Deserial ==
    /\ step = "received"
    /\ result' = <<PreAccountTransaction_deserial(data)>>
    /\ pre' = IF PreAccountTransaction_deserial(data).ok
              THEN <<PreAccountTransaction_deserial(data).value>>
              ELSE <<>>
    /\ step' = IF PreAccountTransaction_deserial(data).ok THEN "prepared" ELSE "rejected"
    /\ UNCHANGED <<item, data, tx_hash, response, keys, signature, verified,
                   hash_to_sign, signer, num_keys, given, builder, tx>>

\* The caller assigns to a public field of the prepared transaction.
P_SetField(f, v) ==
    /\ step = "prepared"
    /\ v # pre[1][f]
    /\ pre' = <<[pre[1] EXCEPT ![f] = v]>>
    /\ step' = "changed"
    /\ UNCHANGED <<wvars, keys, signature, verified, hash_to_sign, signer, num_keys,
                   given, builder, tx>>

\* PreAccountTransaction::sign.
P_Sign ==
    /\ step \in {"prepared", "changed"}
    /\ tx' = <<PreAccountTransaction_sign(pre[1], signer)>>
    /\ signature' = PreAccountTransaction_sign(pre[1], signer).signature
    /\ hash_to_sign' = compute_transaction_sign_hash(pre[1].header, pre[1].encoded)
    /\ step' = "signed"
    /\ UNCHANGED <<wvars, keys, verified, signer, num_keys, given, builder, pre>>

NextPrepared ==
    \/ \E nonce \in B_Nonces, energy \in B_GivenEnergy, payload \in B_Payloads :
          B_New(1, nonce, 1000, energy, payload)
    \/ B_Construct
    \/ \E bytes \in P_Bytes : P_Receive(bytes)
    \/ P_Deserial
    \/ \E f \in {"header", "payload", "encoded", "hash_to_sign"} :
          \E v \in P_FieldValues(f) : P_SetField(f, v)
    \/ P_Sign

SpecPrepared == InitPrepared /\ [][NextPrepared]_vars

-----------------------------------------------------------------------------
(* Energy cost over the whole width of its arguments.  A u64 is four limbs  *)
(* of 16 bits and a u32 two, the most significant first.                    *)

Limb == 256 * 256

\* u64::from(u32).
u64_from(n) == <<0, 0>> \o n

\* a <= b for two numbers of as many limbs.
limbs_le(a, b) ==
    \/ a = b
    \/ \E i \in 1 .. Len(a) : a[i] < b[i] /\ \A j \in 1 .. (i - 1) : a[j] = b[j]

\* k * a in u64 for a constant k: the 64 low bits, and whether bits were lost.
u64_mul(k, a) ==
    LET p4 == k * a[4]
        p3 == k * a[3] + (k * a[4]) \div Limb
        p2 == k * a[2] + (k * a[3] + (k * a[4]) \div Limb) \div Limb
    IN  [value |-> <<(k * a[1] + p2 \div Limb) % Limb, p2 % Limb, p3 % Limb, p4 % Limb>>,
         overflow |-> (k * a[1] + p2 \div Limb) \div Limb > 0]

\* a + b in u64, likewise.
u64_add(a, b) ==
    LET c4 == (a[4] + b[4]) \div Limb
        c3 == (a[3] + b[3] + (a[4] + b[4]) \div Limb) \div Limb
        s2 == a[2] + b[2] + c3
    IN  [value |-> <<(a[1] + b[1] + s2 \div Limb) % Limb, s2 % Limb,
                     (a[3] + b[3] + c4) % Limb, (a[4] + b[4]) % Limb>>,
         overflow |-> (a[1] + b[1] + s2 \div Limb) \div Limb > 0]

\* What an arithmetic expression of type u64 gives: its value, or, when bits
\* were lost, a panic in a build with overflow checks and the 64 low bits in
\* a build without.
Outcomes(r) == IF r.overflow THEN {Err("panic"), Ok(r.value)} ELSE {Ok(r.value)}

\* cost::base_cost on a u64 and a u32: B * transaction_size and
\* A * u64::from(num_signatures) cannot lose bits, their sum can.
base_cost_u64(transaction_size, num_signatures) ==
    LET r == u64_add(u64_mul(B, transaction_size).value,
                     u64_mul(A, u64_from(num_signatures)).value)
    IN  [value |-> r.value,
         overflow |-> \/ u64_mul(B, transaction_size).overflow
                      \/ u64_mul(A, u64_from(num_signatures)).overflow
                      \/ r.overflow]

UPDATE_CREDENTIALS_BASE == 500

\* cost::deploy_credential.
deploy_credential(ty, nk) ==
    CASE ty = "Initial" -> 1000 + 100 * nk
      [] ty = "Normal" -> 54000 + 100 * nk

\* Mutant: the credentials added are charged as initial credentials.
update_credentials_variable_Initial(num_credentials_before, nks) ==
    500 * num_credentials_before
        + SumOver([i \in DOMAIN nks |-> deploy_credential("Initial", nks[i])], DOMAIN nks)

\* cost::update_credentials_variable.  With u16 arguments the u64 sum stays
\* below 2^64 for every slice that fits in memory.
update_credentials_variable(num_credentials_before, nks) ==
    500 * num_credentials_before
        + SumOver([i \in DOMAIN nks |-> deploy_credential("Normal", nks[i])], DOMAIN nks)

\* cost::update_credentials.
update_credentials(num_credentials_before, nks) ==
    UPDATE_CREDENTIALS_BASE + update_credentials_variable(num_credentials_before, nks)

\* Sizes and numbers of signatures, up to the largest of their types.
E_Sizes ==
    {<<0, 0, 0, 0>>, <<0, 0, 0, 101>>, <<0, 0, 1, 0>>, <<0, 0, 65535, 65535>>,
     <<0, 1, 0, 0>>, <<65535, 65535, 65535, 65435>>, <<65535, 65535, 65535, 65436>>,
     <<65535, 65535, 65535, 65535>>}

E_NumSignatures == {<<0, 0>>, <<0, 1>>, <<0, 2>>, <<65535, 65535>>}

\* Two calls of base_cost, the arguments of the first not above those of the
\* second.
E_BaseCostCalls ==
    {c \in [fn : {"base_cost"}, size1 : E_Sizes, n1 : E_NumSignatures,
            size2 : E_Sizes, n2 : E_NumSignatures] :
        limbs_le(c.size1, c.size2) /\ limbs_le(c.n1, c.n2)}

\* Numbers of credentials and of keys: a u16.
E_U16 == {0, 1, 2, 65535}

\* The most credentials added in one call.
E_MaxAdded == 2

E_NumKeys == UNION {[1 .. n -> E_U16] : n \in 0 .. E_MaxAdded}

\* Two calls of update_credentials, no argument of the first above that of
\* the second.
E_UpdateCredentialsCalls ==
    {c \in [fn : {"update_credentials"}, before1 : E_U16, num_keys1 : E_NumKeys,
            before2 : E_U16, num_keys2 : E_NumKeys] :
        /\ c.before1 <= c.before2
        /\ Len(c.num_keys1) = Len(c.num_keys2)
        /\ \A i \in DOMAIN c.num_keys1 : c.num_keys1[i] <= c.num_keys2[i]}

E_DeployCredentialCalls == [fn : {"deploy_credential"}, ty : {"Initial", "Normal"}, nk : E_U16]

InitCost ==
    /\ item \in E_BaseCostCalls \cup E_UpdateCredentialsCalls \cup E_DeployCredentialCalls
    /\ data = <<>>
    /\ tx_hash = <<>>
    /\ response = <<>>
    /\ result = <<>>
    /\ keys = [threshold |-> 1, keys |-> EmptyMap]
    /\ signature = EmptyMap
    /\ verified = <<>>
    /\ hash_to_sign = Digest(<<>>)
    /\ signer = NoSigner
    /\ num_keys = <<>>
    /\ step = "new"
    /\ NoBuild

\* The two calls of base_cost are made; each gives one of its outcomes.
E_BaseCost ==
    /\ step = "new"
    /\ item.fn = "base_cost"
    /\ \E r1 \in Outcomes(base_cost_u64(item.size1, item.n1)),
          r2 \in Outcomes(base_cost_u64(item.size2, item.n2)) :
            result' = <<r1, r2>>
    /\ step' = "computed"
    /\ UNCHANGED <<item, data, tx_hash, response, keys, signature, verified,
                   hash_to_sign, signer, num_keys, bvars>>

\* The two calls of update_credentials are made.
E_UpdateCredentials ==
    /\ step = "new"
    /\ item.fn = "update_credentials"
    /\ result' = <<update_credentials(item.before1, item.num_keys1),
                   update_credentials(item.before2, item.num_keys2)>>
    /\ step' = "computed"
    /\ UNCHANGED <<item, data, tx_hash, response, keys, signature, verified,
                   hash_to_sign, signer, num_keys, bvars>>

\* deploy_credential is called.
E_DeployCredential ==
    /\ step = "new"
    /\ item.fn = "deploy_credential"
    /\ result' = <<deploy_credential(item.ty, item.nk)>>
    /\ step' = "computed"
    /\ UNCHANGED <<item, data, tx_hash, response, keys, signature, verified,
                   hash_to_sign, signer, num_keys, bvars>>

NextCost ==
    \/ E_BaseCost
    \/ E_UpdateCredentials
    \/ E_DeployCredential

SpecCost == InitCost /\ [][NextCost]_vars

-----------------------------------------------------------------------------
(* Properties of verification. *)

\* The credential indices of sig that the access structure recognises.
Recognised(ks, sig) == {ci \in DOMAIN sig : ci \in DOMAIN ks.keys}

\* The key indices of sig[ci] that are declared public keys of credential ci.
Declared(ks, sig, ci) == {ki \in DOMAIN sig[ci] : ki \in DOMAIN ks.keys[ci].keys}

\* (a) enough recognised credentials, (b) enough declared keys in each,
\* (c) every signature at a recognised, declared place verifies.
CountedEntriesSuffice(ks, hash, sig) ==
    /\ Cardinality(Recognised(ks, sig)) >= ks.threshold
    /\ \A ci \in Recognised(ks, sig) :
          Cardinality(Declared(ks, sig, ci)) >= ks.keys[ci].threshold
    /\ \A ci \in Recognised(ks, sig) : \A ki \in Declared(ks, sig, ci) :
          Verify(ks.keys[ci].keys[ki], hash, sig[ci][ki])

\* Every credential index of sig is recognised and every key index declared.
NoUnknownEntry(ks, sig) ==
    /\ Recognised(ks, sig) = DOMAIN sig
    /\ \A ci \in Recognised(ks, sig) : Declared(ks, sig, ci) = DOMAIN sig[ci]

\* C1 as stated: the check succeeds if and only if the recognised credentials
\* reach the account threshold, each of them has its threshold of declared
\* keys, and the signatures at those places verify.
C1_Original ==
    verified # <<>> =>
        (verified[1] <=> CountedEntriesSuffice(keys, hash_to_sign, signature))

\* C1 amended: the check succeeds if and only if, in addition, the signature
\* map holds no credential index the access structure does not know and no
\* key index that is not declared for its credential.
C1_VerifyIff ==
    verified # <<>> =>
        (verified[1] <=> /\ CountedEntriesSuffice(keys, hash_to_sign, signature)
                         /\ NoUnknownEntry(keys, signature))

\* C1 witness: a check that succeeded on two credentials, one with two keys.
C1_Witness ==
    /\ verified = <<TRUE>>
    /\ Len_(signature) = 2
    /\ \E ci \in DOMAIN signature : Len_(signature[ci]) = 2

\* A signature of sig that fails to verify against its declared public key.
HasInvalidSignature(ks, hash, sig) ==
    \E ci \in Recognised(ks, sig) : \E ki \in Declared(ks, sig, ci) :
        ~Verify(ks.keys[ci].keys[ki], hash, sig[ci][ki])

\* A recognised credential of sig with fewer signatures than its threshold.
HasShortCredential(ks, sig) ==
    \E ci \in Recognised(ks, sig) : Len_(sig[ci]) < ks.keys[ci].threshold

\* One of the five defects of a signature map.
Defective(ks, hash, sig) ==
    \/ \E ci \in DOMAIN sig : ci \notin DOMAIN ks.keys
    \/ \E ci \in Recognised(ks, sig) : \E ki \in DOMAIN sig[ci] :
          ki \notin DOMAIN ks.keys[ci].keys
    \/ HasInvalidSignature(ks, hash, sig)
    \/ HasShortCredential(ks, sig)
    \/ Len_(sig) < ks.threshold

\* C2: the check is fail-closed: it fails whenever the signature map holds an
\* unknown credential, an undeclared key, a signature that does not verify, a
\* credential below its threshold, or fewer credentials than the account
\* threshold, whatever else the map holds.
C2_FailClosed ==
    (verified # <<>> /\ Defective(keys, hash_to_sign, signature)) => verified = <<FALSE>>

\* C2 witness: a rejected map with one bad signature next to a credential that
\* alone would have passed.
C2_Witness ==
    /\ verified = <<FALSE>>
    /\ HasInvalidSignature(keys, hash_to_sign, signature)
    /\ \E ci \in DOMAIN signature :
          verify_signature_transaction_sign_hash(
              [keys EXCEPT !.threshold = 1], hash_to_sign, [c \in {ci} |-> signature[c]])

\* C3: an account threshold above the number of credentials in the signature
\* map makes the check fail, valid signatures or not.
C3_ThresholdAboveCredentials ==
    (verified # <<>> /\ keys.threshold > Len_(signature)) => verified = <<FALSE>>

\* C3 witness: the test's case, a map that passes with the threshold at the
\* number of its credentials and is rejected with the threshold one higher.
C3_Witness ==
    /\ verified = <<FALSE>>
    /\ Len_(signature) >= 1
    /\ keys.threshold = Len_(signature) + 1
    /\ verify_signature_transaction_sign_hash(
           [keys EXCEPT !.threshold = Len_(signature)], hash_to_sign, signature)

-----------------------------------------------------------------------------
(* Properties of the signers. *)

Min(a, b) == IF a <= b THEN a ELSE b

\* The number of signatures a TransactionSignature holds.
CountSignatures(sig) == SumOver([ci \in DOMAIN sig |-> Len_(sig[ci])], DOMAIN sig)

\* ks holds the public keys of the key pairs of m at the same indices, with an
\* account threshold within the number of credentials and credential
\* thresholds within the number of keys.
MatchesMap(ks, m) ==
    /\ DOMAIN ks.keys = DOMAIN m
    /\ ks.threshold \in 1 .. Len_(m)
    /\ \A ci \in DOMAIN m :
          /\ DOMAIN ks.keys[ci].keys = DOMAIN m[ci]
          /\ ks.keys[ci].threshold \in 1 .. Len_(m[ci])
          /\ \A ki \in DOMAIN m[ci] : ks.keys[ci].keys[ki] = VerifyKey(m[ci][ki])

\* C4: what a map of key pairs signs verifies against every access structure
\* that holds the matching public keys, whatever the thresholds within range.
C4_MapSignatureVerifies ==
    (/\ signer.kind = "map"
     /\ step = "checked"
     /\ MatchesMap(keys, signer.value))
        => verified = <<TRUE>>

\* C4 witness: a checked signature of two credentials, one of them with three
\* keys of which the access structure asks for two.
C4_Witness ==
    /\ signer.kind = "map"
    /\ step = "checked"
    /\ verified = <<TRUE>>
    /\ keys.threshold = 2
    /\ \E ci \in DOMAIN keys.keys :
          keys.keys[ci].threshold = 2 /\ Len_(signer.value[ci]) = 3

\* S is made of the n smallest members of D (of all of D when D has fewer).
IsFirst(S, D, n) ==
    /\ S \subseteq D
    /\ Cardinality(S) = Min(n, Cardinality(D))
    /\ \A a \in S : \A b \in D \ S : a < b

\* C5: AccountKeys signs with the first `threshold` credentials in ascending
\* index and in each with the first `credential threshold` keys; each of them
\* signs the given hash at its own place, and nothing else is in the result.
C5_AccountKeysSignWithFirst ==
    (signer.kind = "account" /\ step # "new") =>
        LET ak == signer.value IN
        /\ IsFirst(DOMAIN signature, DOMAIN ak.keys, ak.threshold)
        /\ \A ci \in DOMAIN signature :
              /\ IsFirst(DOMAIN signature[ci], DOMAIN ak.keys[ci].keys,
                         ak.keys[ci].threshold)
              /\ \A ki \in DOMAIN signature[ci] :
                    signature[ci][ki] = Sign(ak.keys[ci].keys[ki], hash_to_sign)

\* C5 witness: an account with credentials 0 and 1 and threshold 1 has signed;
\* credential 0 holds keys 1 and 2 with threshold 1.
C5_Witness ==
    /\ signer.kind = "account"
    /\ step = "signed"
    /\ signer.value.threshold = 1
    /\ DOMAIN signer.value.keys = {0, 1}
    /\ DOMAIN signer.value.keys[0].keys = {1, 2}
    /\ signer.value.keys[0].threshold = 1
    /\ DOMAIN signature = {0}
    /\ DOMAIN signature[0] = {1}

\* C6: num_keys() is the number of signatures sign_transaction_hash returns,
\* for both signers and every value of them.
C6_NumKeysIsSignatureCount ==
    (step # "new" /\ num_keys # <<>>) => num_keys[1] = CountSignatures(signature)

-----------------------------------------------------------------------------
(* Properties of construction and of the sign hash. *)

\* C7: make_transaction returns a header with the energy of the cost policy
\* (e for Absolute(e); 60 + payload length + 100 * num_sigs + energy for Add)
\* and the length of the encoded payload, and a hash_to_sign that is the
\* sign hash of that header and the encoded payload.
C7_MakeTransaction ==
    pre # <<>> =>
        LET p == pre[1]
            g == given[1]
            len == Len(p.encoded.payload)
        IN  /\ p.encoded.payload = Payload_serial(p.payload)
            /\ p.header.payload_size = len
            /\ p.header.energy_amount =
                  IF g.kind = "Absolute" THEN g.energy
                  ELSE ((60 + len) + 100 * g.num_sigs) + g.energy
            /\ p.hash_to_sign = compute_transaction_sign_hash(p.header, p.encoded)

\* C7 witness: scenario A, a Transfer with one signature: payload of 41
\* bytes and energy 501.
C7_Witness ==
    /\ step = "prepared"
    /\ pre[1].payload.tag = "Transfer"
    /\ given[1] = [kind |-> "Add", energy |-> 300, num_sigs |-> 1]
    /\ pre[1].header.payload_size = 41
    /\ pre[1].header.energy_amount = 501

\* The signatures of a TransactionSignature.
SignaturesOf(sig) == UNION {{sig[ci][ki] : ki \in DOMAIN sig[ci]} : ci \in DOMAIN sig}

\* C8: the builder's state is never signed and never returned: while the
\* builder exists nothing has been returned; what is returned carries the
\* energy of the cost policy; and every signature made on it is over the sign
\* hash of that finalized header, never over the header with the placeholder
\* energy 0 (unless 0 is what the policy chose).
C8_PlaceholderNeverSigned ==
    /\ builder # <<>> => (pre = <<>> /\ tx = <<>> /\ signature = EmptyMap)
    /\ pre # <<>> =>
          LET final == make_transaction_cost(given[1], 60 + Len(pre[1].encoded.payload))
              placeholder == [pre[1].header EXCEPT !.energy_amount = 0]
          IN  /\ pre[1].header.energy_amount = final
              /\ \A sg \in SignaturesOf(signature) :
                    /\ sg.over = Digest(TransactionHeader_serial(pre[1].header)
                                            \o pre[1].encoded.payload)
                    /\ final # 0 =>
                          sg.over # Digest(TransactionHeader_serial(placeholder)
                                               \o pre[1].encoded.payload)
              /\ tx # <<>> => tx[1].signature = signature

\* C8 witness: a transaction made with an Add policy and signed by three keys.
C8_Witness ==
    /\ step = "signed"
    /\ pre # <<>>
    /\ given[1].kind = "Add"
    /\ Cardinality(SignaturesOf(signature)) = 3

\* C9: a transaction that verified and then had a header field or a payload
\* byte changed, the signature kept, does not verify.
C9_AlteredTransactionRejected ==
    step = "rechecked" => verified = <<FALSE>>

\* C9 witness: the energy of a built and signed transaction was changed and
\* the transaction checked again.
C9_Witness ==
    /\ step = "rechecked"
    /\ pre # <<>>
    /\ tx[1].header.energy_amount # pre[1].header.energy_amount
    /\ tx[1].header = [pre[1].header EXCEPT !.energy_amount = tx[1].header.energy_amount]
    /\ tx[1].payload = pre[1].encoded

\* C10: the sign hash is the digest of the header bytes followed by the
\* payload bytes: the encoding of a structured payload, the stored bytes of
\* an opaque one; a payload and its encoding give the same hash.
C10_SignHashOfBytes ==
    (tx # <<>> /\ step \in {"signed", "checked"}) =>
        LET t == tx[1] IN
        /\ IsPayload(t.payload) =>
              /\ hash_to_sign = Digest(TransactionHeader_serial(t.header)
                                           \o Payload_serial(t.payload))
              /\ hash_to_sign = compute_transaction_sign_hash(t.header, encode(t.payload))
        /\ ~IsPayload(t.payload) =>
              hash_to_sign = Digest(TransactionHeader_serial(t.header) \o t.payload.payload)

\* C10 witness: sign_transaction was given a structured scheduled transfer
\* with two releases.
C10_Witness ==
    /\ step = "signed"
    /\ IsPayload(tx[1].payload)
    /\ tx[1].payload.tag = "TransferWithSchedule"
    /\ Len(tx[1].payload.schedule) = 2
    /\ signature # EmptyMap

\* C11: the sign hash never covers the signature: a transaction with the same
\* header and payload bytes and another signature map was signed over the
\* hash the first one was signed over, and is checked against that same hash.
C11_SignHashLeavesSignatureOut ==
    step \in {"resigned", "reverified"} =>
        /\ compute_transaction_sign_hash(tx[1].header, tx[1].payload) = hash_to_sign
        /\ \A s \in SignaturesOf(tx[1].signature) : s.over = hash_to_sign
        /\ step = "reverified" =>
              verified[1] = verify_signature_transaction_sign_hash(keys, hash_to_sign,
                                                                   tx[1].signature)

\* C11 witness: a transaction signed by three keys was signed again by one
\* key only, and both signature maps verified.
C11_Witness ==
    /\ step = "reverified"
    /\ verified = <<TRUE>>
    /\ Cardinality(SignaturesOf(sign_transaction(signer, tx[1].header, tx[1].payload).signature)) = 3
    /\ Cardinality(SignaturesOf(tx[1].signature)) = 1

-----------------------------------------------------------------------------
(* Properties of block items and raw submission. *)

\* The contents of a block item as the claim spells them out.
ContentsOf(bi) ==
    CASE bi.kind = "AccountTransaction" ->
            TransactionSignature_serial(bi.value.signature)
                \o TransactionHeader_serial(bi.value.header)
                \o (IF IsPayload(bi.value.payload) THEN Payload_serial(bi.value.payload)
                    ELSE bi.value.payload.payload)
      [] bi.kind = "CredentialDeployment" -> bi.value.bytes
      [] bi.kind = "UpdateInstruction" ->
            UpdateHeader_serial(bi.value.header) \o UpdatePayload_serial(bi.value.payload)
                \o UpdateInstructionSignature_serial(bi.value.signatures)

TagOf(bi) ==
    CASE bi.kind = "AccountTransaction" -> 0
      [] bi.kind = "CredentialDeployment" -> 1
      [] bi.kind = "UpdateInstruction" -> 2

\* C12: the identity hash of a block item is the digest of its tag byte (0, 1
\* or 2) followed by its contents, for an account transaction signature,
\* header and payload bytes; block items that differ in their signatures
\* only have different hashes.
C12_BlockItemHash ==
    step = "hashed" =>
        /\ tx_hash[1] = Digest(<<TagOf(item)>> \o ContentsOf(item))
        /\ item.kind = "AccountTransaction" =>
              \A t \in W_AccountTransactions :
                  (/\ t.header = item.value.header
                   /\ t.payload = item.value.payload
                   /\ t.signature # item.value.signature)
                      => BlockItem_hash([kind |-> "AccountTransaction", value |-> t]) # tx_hash[1]

\* C12 witness: the hash of an account transaction with three signatures.
C12_Witness ==
    /\ step = "hashed"
    /\ item.kind = "AccountTransaction"
    /\ Cardinality(SignaturesOf(item.value.signature)) = 3

\* C13: what send_raw_account_transaction sends is the version byte, the tag
\* byte 0, the serialized signatures and the caller's body; its hash is the
\* digest of those bytes; and it returns the hash if and only if the node
\* answered that the transaction was accepted, an error otherwise.
C13_SendRaw ==
    /\ data # <<>> =>
          /\ data = <<0, 0>> \o TransactionSignature_serial(item.signatures) \o item.body
          /\ tx_hash[1] = Digest(data)
    /\ (step = "returned" /\ item.kind = "Raw") =>
          /\ result[1].ok <=> response = <<Ok(TRUE)>>
          /\ result[1].ok => (data # <<>> /\ result[1].value = Digest(data))

\* C13 witness: a transaction with three signatures was accepted and its
\* hash returned.
C13_Witness ==
    /\ step = "returned"
    /\ result[1].ok
    /\ Cardinality(SignaturesOf(item.signatures)) = 3
    /\ Len(item.body) > 60

-----------------------------------------------------------------------------
(* Properties of decoding. *)

PayloadDiscriminants == (0 .. 8) \cup {13} \cup (16 .. 24)

\* C15: payload decoding fails on every first byte outside 0..8, 13, 16..24
\* and otherwise produces, if anything, the variant whose encoding writes that
\* byte, each of these bytes being written by a variant; update payload
\* decoding likewise with 1..13.
C15_Discriminants ==
    /\ {Payload_serial(pl)[1] : pl \in D_Payloads} = PayloadDiscriminants
    /\ (/\ item.kind = "Payload"
        /\ step \in {"deserialized", "decoded"}
        /\ data # <<>>)
          => /\ data[1] \notin PayloadDiscriminants => ~result[1].ok
             /\ result[1].ok =>
                   \E pl \in D_Payloads :
                       pl.tag = result[1].value.tag /\ Payload_serial(pl)[1] = data[1]
    /\ (/\ item.kind = "UpdatePayload"
        /\ step = "deserialized"
        /\ data # <<>>)
          => /\ data[1] \notin 1 .. 13 => ~result[1].ok
             /\ result[1].ok => UpdatePayload_serial(result[1].value)[1] = data[1]

\* C15 witness: the discriminant of a transfer was changed to 12 and the
\* decoding failed.
C15_Witness ==
    /\ step = "deserialized"
    /\ item.kind = "Payload"
    /\ item.value.tag = "Transfer"
    /\ data[1] = 12
    /\ ~result[1].ok

\* The payload size declared in the bytes of a serialized transaction t.
DeclaredSize(t, bytes) == U32FromBE(SubSeq(bytes, PayloadSizeOffset(t) + 1, PayloadSizeOffset(t) + 4))

\* bytes begins with all of prefix.
StartsWith(bytes, prefix) ==
    Len(bytes) >= Len(prefix) /\ SubSeq(bytes, 1, Len(prefix)) = prefix

\* C16: decoding into a structured payload succeeds only when exactly the
\* declared number of bytes is consumed: EncodedPayload::decode fails when a
\* byte is left after the payload, and AccountTransaction<Payload> fails when
\* the declared size is not the number of bytes the payload takes.
C16_ExactLength ==
    /\ (step = "decoded" /\ result[1].ok) =>
          Payload_deserial(data).rest = <<>>
    /\ (/\ step = "decoded"
        /\ StartsWith(data, Payload_serial(item.value))
        /\ Len(data) > Len(Payload_serial(item.value)))
          => ~result[1].ok
    /\ (/\ step = "deserialized"
        /\ item.kind = "AccountTransaction"
        /\ Len(data) >= PayloadSizeOffset(item.value) + 4)
          => LET real == Len(Payload_serial(item.value.payload))
                 declared == DeclaredSize(item.value, data)
             IN  /\ declared # real => ~result[1].ok
                 /\ result[1].ok =>
                       /\ result[1].value.payload = item.value.payload
                       /\ result[1].value.header.payload_size = real
                       /\ Len(data) - Len(result[1].rest)
                              = PayloadSizeOffset(item.value) + 12 + real

\* C16 witness: scenario B, a transaction whose header declares two bytes
\* fewer than the payload has is refused.
C16_Witness ==
    /\ step = "deserialized"
    /\ item.kind = "AccountTransaction"
    /\ Len(data) = Len(AccountTransaction_serial(item.value))
    /\ DeclaredSize(item.value, data) = Len(Payload_serial(item.value.payload)) - 2
    /\ ~result[1].ok

\* The payload size a value of the kinds with a header declares.
SizeOf(it) ==
    CASE it.kind = "PayloadSize" -> it.value
      [] it.kind \in {"TransactionHeader", "UpdateHeader"} -> it.value.payload_size
      [] it.kind = "UpdateInstruction" -> it.value.header.payload_size

\* C18: a payload size, and a header that holds one, decodes if and only if
\* the declared size is at most 102,400, and to the value encoded; a
\* transaction or update instruction declaring more is refused; a refusal
\* carries no header and no payload.
C18_PayloadSizeLimit ==
    /\ (/\ step = "deserialized"
        /\ item.kind \in {"PayloadSize", "TransactionHeader", "UpdateHeader"}
        /\ StartsWith(data, serial(item.kind, item.value)))
          => /\ result[1].ok <=> SizeOf(item) <= 102400
             /\ result[1].ok => result[1].value = item.value
    /\ (/\ step = "deserialized"
        /\ item.kind = "UpdateInstruction"
        /\ SizeOf(item) > 102400)
          => ~result[1].ok
    /\ (/\ step \in {"deserialized", "deserialized_encoded"}
        /\ item.kind = "AccountTransaction"
        /\ Len(data) >= PayloadSizeOffset(item.value) + 4
        /\ DeclaredSize(item.value, data) > 102400)
          => ~result[1].ok
    /\ (step \in {"deserialized", "deserialized_encoded"} /\ ~result[1].ok)
          => DOMAIN result[1] = {"ok", "error"}

\* C18 witness: a transaction header declaring exactly 102,400 was decoded.
C18_Witness ==
    /\ step = "deserialized"
    /\ item.kind = "TransactionHeader"
    /\ item.value.payload_size = 102400
    /\ data = TransactionHeader_serial(item.value)
    /\ result[1].ok

\* C19: an update instruction signature with a declared count of 0 is
\* refused with the error that there must be at least one signature, and so
\* is an update instruction that holds one; with a count of 1 or more that
\* many entries are read.
C19_AtLeastOneSignature ==
    /\ (/\ step = "deserialized"
        /\ item.kind = "UpdateInstructionSignature"
        /\ Len(data) >= 2)
          => /\ (data[1] = 0 /\ data[2] = 0) =>
                    result[1] = Err("There must be at least one signature.")
             /\ (data[2] >= 1 /\ StartsWith(data, UpdateInstructionSignature_serial(item.value)))
                    => /\ result[1].ok
                       /\ result[1].value = item.value
                       /\ Len_(result[1].value) = data[1] * 256 + data[2]
    /\ (/\ step = "deserialized"
        /\ item.kind = "UpdateInstruction"
        /\ item.value.signatures = EmptyMap
        /\ SizeOf(item) <= 102400
        /\ Len(data) >= Len(UpdateInstruction_serial(item.value)))
          => result[1] = Err("There must be at least one signature.")

\* C19 witness: scenario C, an update instruction with an empty signature
\* map was refused.
C19_Witness ==
    /\ step = "deserialized"
    /\ item.kind = "UpdateInstruction"
    /\ item.value.signatures = EmptyMap
    /\ data = UpdateInstruction_serial(item.value)
    /\ result[1] = Err("There must be at least one signature.")

-----------------------------------------------------------------------------
(* Properties of the construct wrappers. *)

\* C17: what make_transaction and the wrappers return never declares a
\* payload size above 102,400 nor one that is not the length of the encoded
\* payload.
C17_PayloadSizeWithinMaximum ==
    pre # <<>> =>
        /\ pre[1].header.payload_size <= 102400
        /\ pre[1].header.payload_size = Len(pre[1].encoded.payload)

\* The extra term the claim names for each wrapper.
ExtraTerm(call) ==
    CASE call.wrapper \in {"transfer", "transfer_with_memo"} -> 300
      [] call.wrapper \in {"encrypted_transfer", "encrypted_transfer_with_memo"} -> 27000
      [] call.wrapper = "transfer_to_encrypted" -> 600
      [] call.wrapper = "transfer_to_public" -> 14850
      [] call.wrapper \in {"add_baker", "update_baker_keys"} -> 4050
      [] call.wrapper \in {"update_baker_stake", "update_baker_restake_earnings",
                           "remove_baker", "register_data"} -> 300
      [] call.wrapper = "deploy_module" -> Len(call.args.source.bytes) \div 10
      [] call.wrapper \in {"init_contract", "update_contract"} -> call.args.energy

\* C20: the energy of a transaction made by a wrapper is 60 plus the length
\* of the encoded payload, plus 100 for each signature, plus the extra term of
\* the wrapper; a transfer with one signature has a payload of 41 bytes and
\* energy 501.
C20_WrapperEnergy ==
    (/\ pre # <<>>
     /\ item # <<>>
     /\ item[1].wrapper \notin {"transfer_with_schedule", "transfer_with_schedule_and_memo"})
        => /\ pre[1].header.energy_amount =
                 (60 + Len(pre[1].encoded.payload)) + 100 * item[1].num_sigs + ExtraTerm(item[1])
           /\ (item[1].wrapper = "transfer" /\ item[1].num_sigs = 1) =>
                 /\ Len(pre[1].encoded.payload) = 41
                 /\ 60 + pre[1].header.payload_size = 101
                 /\ pre[1].header.energy_amount = 501

\* C20 witness: a transfer made for one signature: payload of 41 bytes,
\* energy 501.
C20_Witness ==
    /\ pre # <<>>
    /\ item # <<>>
    /\ item[1].wrapper = "transfer"
    /\ item[1].num_sigs = 1
    /\ Len(pre[1].encoded.payload) = 41
    /\ pre[1].header.energy_amount = 501

-----------------------------------------------------------------------------
(* Properties of the energy cost. *)

\* C21: base_cost is non-decreasing in the size and in the number of
\* signatures over all of u64 and u32: of two calls, the arguments of the first
\* not above those of the second, both return and the first result is not
\* above the second.
C21_BaseCostMonotone ==
    (step = "computed" /\ item.fn = "base_cost") =>
        /\ result[1].ok
        /\ result[2].ok
        /\ limbs_le(result[1].value, result[2].value)

\* C22: the energy of a scheduled transfer made by a wrapper is that of its
\* size and signatures plus 364 for every release of the schedule in its
\* payload, whatever the number of releases.
C22_ScheduledTransferEnergy ==
    (/\ pre # <<>>
     /\ item # <<>>
     /\ item[1].wrapper \in {"transfer_with_schedule", "transfer_with_schedule_and_memo"})
        => pre[1].header.energy_amount =
             (60 + Len(pre[1].encoded.payload)) + 100 * item[1].num_sigs
                 + 364 * Len(pre[1].payload.schedule)

\* The sum of 54000 + 100 k over the key counts ks.
RECURSIVE NormalCredentials(_)
NormalCredentials(ks) ==
    IF ks = <<>> THEN 0 ELSE (54000 + 100 * Head(ks)) + NormalCredentials(Tail(ks))

\* C23: update_credentials is 500 for every credential the account has, plus
\* 500, plus 54000 + 100 k for every credential added with k keys (all are
\* normal credentials), and it does not decrease when an argument grows;
\* deploy_credential is 1000 + 100 k for an initial and 54000 + 100 k for a
\* normal credential.
C23_UpdateCredentials ==
    /\ (step = "computed" /\ item.fn = "update_credentials") =>
          /\ result[1] = 500 * item.before1 + 500 + NormalCredentials(item.num_keys1)
          /\ result[2] = 500 * item.before2 + 500 + NormalCredentials(item.num_keys2)
          /\ result[1] <= result[2]
    /\ (step = "computed" /\ item.fn = "deploy_credential") =>
          result[1] = (IF item.ty = "Initial" THEN 1000 ELSE 54000) + 100 * item.nk

\* C23 witness: an account of two credentials adds one of one key and one of
\* 65535 keys.
C23_Witness ==
    /\ step = "computed"
    /\ item.fn = "update_credentials"
    /\ item.before1 = 2
    /\ item.num_keys1 = <<1, 65535>>
    /\ result[1] = 1000 + 500 + 54100 + 6607500

-----------------------------------------------------------------------------
(* Properties of removing signatures. *)

\* The map `after` is `before` less one signature of a credential that held
\* exactly its threshold of signatures, or less one credential when `before`
\* held exactly the account threshold of credentials.
RemovedNeeded(ks, before, after) ==
    \/ \E ci \in DOMAIN before \cap DOMAIN ks.keys :
          /\ Len_(before[ci]) = ks.keys[ci].threshold
          /\ \E ki \in DOMAIN before[ci] :
                after = MapInsert(before, ci, MapRemove(before[ci], ki))
    \/ /\ Len_(before) = ks.threshold
       /\ \E ci \in DOMAIN before : after = MapRemove(before, ci)

\* C24: when a signature map passes the check, taking out a signature or a
\* credential that was needed to meet a threshold gives a map that fails it.
C24_RemovingNeededSignature ==
    [][(/\ verify_signature_transaction_sign_hash(keys, hash_to_sign, signature)
        /\ keys' = keys
        /\ hash_to_sign' = hash_to_sign
        /\ RemovedNeeded(keys, signature, signature'))
           => ~verify_signature_transaction_sign_hash(keys', hash_to_sign', signature')]_vars

\* C24 witness: a map that had passed the check was checked again after a
\* removal left a credential one signature below its threshold.
C24_Witness ==
    /\ step = "removed"
    /\ verified = <<FALSE>>
    /\ Len_(signature) >= keys.threshold
    /\ \E ci \in DOMAIN signature \cap DOMAIN keys.keys :
          /\ keys.keys[ci].threshold = 2
          /\ Len_(signature[ci]) = 1

-----------------------------------------------------------------------------
(* Properties of collections longer than a byte counts. *)

\* The number of entries of the collection of p that is too long, the
\* position of its length byte in the encoding, and the bytes of one entry.
LongCollection(p) ==
    CASE p.tag = "TransferWithSchedule" ->
            [n |-> Len(p.schedule), at |-> 34, width |-> 16, after |-> 0]
      [] p.tag = "TransferWithScheduleAndMemo" ->
            [n |-> Len(p.schedule), at |-> 34 + OpaqueLen, width |-> 16, after |-> 0]
      [] p.tag = "UpdateCredentials" /\ Len_(p.new_cred_infos) > 255 ->
            [n |-> Len_(p.new_cred_infos), at |-> 2, width |-> 1 + OpaqueLen,
             after |-> 2 + OpaqueLen * Len(p.remove_cred_ids)]
      [] OTHER ->
            [n |-> Len(p.remove_cred_ids),
             at |-> 3 + (1 + OpaqueLen) * Len_(p.new_cred_infos), width |-> OpaqueLen,
             after |-> 1]

\* C25: a payload with a collection of more than 255 entries is encoded with
\* the length byte n mod 256 and all n entries after it, and decoding that
\* encoding gives an error.
C25_LengthByteWraps ==
    (/\ item.kind = "Payload"
     /\ step \in {"encoded", "decoded"}
     /\ data = Payload_serial(item.value))
        => LET c == LongCollection(item.value) IN
           /\ c.n > 255
           /\ data[c.at] = c.n % 256
           /\ Len(data) = c.at + c.width * c.n + c.after
           /\ step = "decoded" => ~result[1].ok

\* C25 witness: a schedule of 257 releases was encoded with length byte 1 and
\* its decoding failed.
C25_Witness ==
    /\ step = "decoded"
    /\ item.value.tag = "TransferWithSchedule"
    /\ Len(item.value.schedule) = 257
    /\ data = Payload_serial(item.value)
    /\ data[34] = 1
    /\ ~result[1].ok

-----------------------------------------------------------------------------
(* Properties of the hash of a raw submission. *)

\* C26: the hash that send_raw_account_transaction returns for signatures
\* and a body that are those of an account transaction is BlockItem::hash of
\* that transaction.
C26_RawHashIsBlockItemHash ==
    (step = "returned" /\ item.kind = "Raw" /\ result[1].ok) =>
        \A t \in W_AccountTransactions :
            (/\ t.signature = item.signatures
             /\ TransactionHeader_serial(t.header) \o encode_to_buffer(t.payload) = item.body)
                => result[1].value = BlockItem_hash([kind |-> "AccountTransaction", value |-> t])

-----------------------------------------------------------------------------
(* Properties of update instructions. *)

\* C27: an update instruction returned by update::update, for any signer,
\* carries at least one signature and the length of its serialized payload
\* in header.payload_size, and the UpdateInstruction decoder accepts its
\* serialization.
C27_UpdateAccepted ==
    /\ tx # <<>> =>
          /\ Len_(tx[1].signatures) >= 1
          /\ tx[1].header.payload_size = Len(UpdatePayload_serial(tx[1].payload))
    /\ step = "deserialized" => result[1].ok

-----------------------------------------------------------------------------
(* Properties of prepared transactions. *)

\* C28: when a prepared transaction, made by module construct or read from
\* bytes and possibly changed through its public fields, is signed, every
\* signature is over its hash_to_sign, which is the sign hash of its header
\* and its encoded payload, and the encoded payload is the encoding of its
\* payload.
C28_PreparedIsConsistent ==
    step = "signed" =>
        /\ \A sig \in SignaturesOf(tx[1].signature) : sig.over = pre[1].hash_to_sign
        /\ pre[1].hash_to_sign = compute_transaction_sign_hash(pre[1].header, pre[1].encoded)
        /\ pre[1].encoded = encode(pre[1].payload)

-----------------------------------------------------------------------------
(* Properties of building and signing with the keys of an account. *)

\* The account holds at least `threshold` credentials, and each credential at
\* least its own threshold of keys.
HoldsItsThresholds(ak) ==
    /\ Len_(ak.keys) >= ak.threshold
    /\ \A ci \in DOMAIN ak.keys : Len_(ak.keys[ci].keys) >= ak.keys[ci].threshold

\* C29: a transaction built and signed by a function of module send with
\* AccountKeys that hold their thresholds verifies against the access
\* structure of those keys, and the energy of its header counts exactly the
\* signatures it carries.
C29_SendVerifiesAndCounts ==
    (/\ step = "checked"
     /\ num_keys # <<>>
     /\ signer.kind = "account"
     /\ HoldsItsThresholds(signer.value))
        => /\ verified = <<TRUE>>
           /\ tx[1].header.energy_amount =
                  base_cost(TRANSACTION_HEADER_SIZE + Len(tx[1].payload.payload),
                            CountSignatures(tx[1].signature)) + given[1].energy

\* C29 witness: send::transfer with the keys of an account of threshold 2,
\* three signatures, energy 60 + 41 + 300 + 300, verified.
C29_Witness ==
    /\ step = "checked"
    /\ num_keys = <<3>>
    /\ signer.kind = "account"
    /\ signer.value.threshold = 2
    /\ CountSignatures(tx[1].signature) = 3
    /\ given[1].energy = SIMPLE_TRANSFER
    /\ Payload_serial([tag |-> "Transfer", to_address |-> 2, amount |-> 100]) = tx[1].payload.payload
    /\ tx[1].header.energy_amount = 701
    /\ verified = <<TRUE>>

-----------------------------------------------------------------------------
(* Properties of the two ways of decoding a transaction. *)

\* C30: on the same bytes, reading an AccountTransaction<Payload> succeeds
\* exactly when reading an AccountTransaction<EncodedPayload> and decoding
\* its payload succeeds, and then both give the same signature, header and
\* payload and leave the same bytes unread.
C30_DecodingPathsAgree ==
    (/\ step \in {"deserialized", "deserialized_encoded"}
     /\ item.kind = "AccountTransaction")
        => LET structured == IF step = "deserialized" THEN result[1]
                             ELSE AccountTransaction_deserial(data)
               opaque == IF step = "deserialized_encoded" THEN result[1]
                         ELSE AccountTransaction_Encoded_deserial(data)
               decoded == IF opaque.ok THEN EncodedPayload_decode(opaque.value.payload)
                          ELSE opaque
           IN  /\ structured.ok <=> (opaque.ok /\ decoded.ok)
               /\ structured.ok =>
                     /\ structured.value.signature = opaque.value.signature
                     /\ structured.value.header = opaque.value.header
                     /\ structured.value.payload = decoded.value
                     /\ structured.rest = opaque.rest

\* C30 witness: bytes whose header declares more than the payload takes are
\* read as a transaction with an opaque payload, the payload does not decode,
\* and reading them as a transaction with a structured payload fails.
C30_Witness ==
    /\ step = "deserialized_encoded"
    /\ item.kind = "AccountTransaction"
    /\ result[1].ok
    /\ Len(result[1].value.payload.payload) > Len(Payload_serial(item.value.payload))
    /\ ~EncodedPayload_decode(result[1].value.payload).ok
    /\ ~AccountTransaction_deserial(data).ok

====
